---- MODULE Spec2Model ----
(***************************************************************************)
(* State-machine model of the fraternity portal: the role store and its    *)
(* grant/revoke operations (rbac.py, models.py), the legacy role writers   *)
(* (app.py, database.py) and the portal's semester, dues and committee     *)
(* handlers (portal.py).  Tables are sequences of rows; a row's primary    *)
(* key is its position.  Every handler is one atomic step (one request,    *)
(* one transaction); the two-step grant_role of SpecConcurrent interleaves *)
(* the SELECT and the INSERT/COMMIT of concurrent requests.                *)
(***************************************************************************)
EXTENDS Integers, Sequences, FiniteSets, TLC

VARIABLES
    users,            \* users table: id -> [phone, status, is_active]
    roles,            \* roles table: the set of Role.name values
    user_roles,       \* user_roles association table (grant records)
    audit_log,        \* audit_log table
    now,              \* the value the next datetime.utcnow() returns
    response,         \* the portal's response to the latest request it served
    reqs,             \* in-flight grant_role requests (SpecConcurrent)
    semesters,        \* semesters table
    events,           \* events table
    committees,       \* committees table
    committee_budget_allocations,
    committee_transactions,
    dues_charges,
    dues_payments,
    dues_payment_allocations,
    db_transactions,  \* transactions table (legacy ledger): id -> row
    db_payments       \* payments table (legacy member payments): id -> row

\* The tables of the semester, committee and dues models.
semester_tables == <<semesters, events>>
committee_tables == <<committees, committee_budget_allocations, committee_transactions>>
dues_tables == <<dues_charges, dues_payments, dues_payment_allocations>>
legacy_tables == <<db_transactions, db_payments>>

vars == <<users, roles, user_roles, audit_log, now, response, reqs,
          semester_tables, committee_tables, dues_tables, legacy_tables>>

----------------------------------------------------------------------------
(* Bounds *)

MaxUsers == 3        \* user ids are 1..MaxUsers
MaxRows == 3         \* rows the user_roles table may hold beyond the seed
MaxAudit == 3        \* entries the audit log may hold
MaxTime == 5         \* datetime.utcnow() values are 1..MaxTime
NumRequests == 2     \* concurrent grant_role requests

----------------------------------------------------------------------------
(* Program constants *)

NULL == 0            \* SQL NULL / Python None in a timestamp or id column

ROLE_BROTHER == "brother"
ROLE_CHAIR_BROTHERHOOD == "chair_brotherhood"
ROLE_CHAIR_SOCIAL == "chair_social"
ROLE_CHAIR_RECRUITMENT == "chair_recruitment"
ROLE_TREASURER == "treasurer"
ROLE_VICE_PRESIDENT == "vice_president"
ROLE_PRESIDENT == "president"
ROLE_ADMIN == "admin"

EXECUTIVE_ROLES ==
    {ROLE_TREASURER, ROLE_VICE_PRESIDENT, ROLE_PRESIDENT, ROLE_ADMIN}

DEFAULT_ROLES ==
    {ROLE_ADMIN, ROLE_BROTHER, ROLE_TREASURER, ROLE_PRESIDENT,
     ROLE_VICE_PRESIDENT, ROLE_CHAIR_BROTHERHOOD, ROLE_CHAIR_SOCIAL,
     ROLE_CHAIR_RECRUITMENT}

ADMIN_PHONE == "admin"
EBUBECHI_PHONE == "4808198055"

UserIds == 1..MaxUsers

\* request.form.get of a field the request does not carry.
None == "None"

\* The portal's response: the endpoint that served the request, the
\* outcome (a status, or the flashed message's kind) and the values a view
\* hands to its template.
Response(endpoint, outcome, value) ==
    [endpoint |-> endpoint, outcome |-> outcome, value |-> value]

\* No portal request served yet.
NoResponse == Response("none", "none", NULL)

\* The committees init_database creates.
COMMITTEE_NAMES == <<"Brotherhood", "Social", "Recruitment">>

\* Role names a caller passes to grant_role / revoke_role; one of them is
\* not the name of any Role row.
RoleNameInputs == {ROLE_BROTHER, ROLE_PRESIDENT, "no_such_role"}

\* actor_user_id arguments: NULL is the omitted (None) actor.
ActorInputs == {NULL, 1}

----------------------------------------------------------------------------
(* Helpers over tables *)

Indices(table) == DOMAIN table

Max(S) == CHOOSE x \in S : \A y \in S : y <= x

----------------------------------------------------------------------------
(* models.py: the user_roles table and the User role queries *)

\* A grant record.  role_id holds the role's (unique) name.
UserRoleRow(user_id, role_id, granted_by, granted_at) ==
    [user_id |-> user_id, role_id |-> role_id,
     granted_by_user_id |-> granted_by, granted_at |-> granted_at,
     revoked_at |-> NULL]

\* A unique constraint over (user_id, role_id) alone.
uq_user_roles_active_PerPair(table) ==
    \A i, j \in Indices(table) :
        (i # j /\ table[i].user_id = table[j].user_id)
        => table[i].role_id # table[j].role_id

\* UniqueConstraint('user_id', 'role_id', 'revoked_at'): two rows conflict
\* when all three columns compare equal.  SQL's NULL never compares equal
\* to NULL, so rows whose revoked_at is NULL never conflict.
uq_user_roles_active(table) ==
    \A i, j \in Indices(table) :
        (/\ i # j
         /\ table[i].user_id = table[j].user_id
         /\ table[i].role_id = table[j].role_id
         /\ table[i].revoked_at # NULL
         /\ table[j].revoked_at # NULL)
        => table[i].revoked_at # table[j].revoked_at

\* Primary keys of the non-revoked rows of a (user, role) pair.
ActiveAssignments(table, user_id, role_name) ==
    {i \in Indices(table) : /\ table[i].user_id = user_id
                            /\ table[i].role_id = role_name
                            /\ table[i].revoked_at = NULL}

\* A query for the user's roles that does not filter on revoked_at.
get_active_roles_WithRevoked(user_id) ==
    {user_roles[i].role_id : i \in
        {k \in Indices(user_roles) : /\ user_roles[k].user_id = user_id
                                     /\ user_roles[k].role_id \in roles}}

\* User.get_active_roles: roles joined to the user's non-revoked rows.
get_active_roles(user_id) ==
    {user_roles[i].role_id : i \in
        {k \in Indices(user_roles) : /\ user_roles[k].user_id = user_id
                                     /\ user_roles[k].revoked_at = NULL
                                     /\ user_roles[k].role_id \in roles}}

\* A role test over every row of the pair, revoked ones included.
User_has_role_AnyRow(user_id, role_name) ==
    \E k \in Indices(user_roles) : /\ user_roles[k].user_id = user_id
                                   /\ user_roles[k].role_id = role_name

\* User.has_role
User_has_role(user_id, role_name) ==
    \E r \in get_active_roles(user_id) : r = role_name

\* User.roles: the relationship over user_roles, revoked rows included.
User_roles(table, user_id) ==
    {table[i].role_id : i \in {k \in Indices(table) : table[k].user_id = user_id}}

----------------------------------------------------------------------------
(* rbac.py *)

\* has_role: false for a missing or unauthenticated user (NULL).
has_role(user_id, role_name) ==
    IF user_id = NULL \/ user_id \notin DOMAIN users
    THEN FALSE
    ELSE User_has_role(user_id, role_name)

has_any_role(user_id, role_names) ==
    \E role_name \in role_names : has_role(user_id, role_name)

\* log_action: the entry db.session.add()s to the audit log.
AuditEntry(actor_user_id, action, target_type, target_id, details) ==
    [actor_user_id |-> actor_user_id, action |-> action,
     target_type |-> target_type, target_id |-> target_id,
     details |-> details, created_at |-> now]

\* An audit writer that puts the new entry in front of the older ones.
log_action_Prepend(log, actor_user_id, action, target_type, target_id, details) ==
    <<AuditEntry(actor_user_id, action, target_type, target_id, details)>> \o log

log_action(log, actor_user_id, action, target_type, target_id, details) ==
    Append(log, AuditEntry(actor_user_id, action, target_type, target_id, details))

\* grant_role without its check for an existing non-revoked assignment.
GrantResult_NoExistingCheck(table, log, user_id, role_name, actor_user_id) ==
    IF role_name \notin roles
    THEN [outcome |-> "False", table |-> table, log |-> log]
    ELSE [outcome |-> "True",
          table |-> Append(table, UserRoleRow(user_id, role_name, actor_user_id, now)),
          log |-> IF actor_user_id # NULL
                  THEN log_action(log, actor_user_id, "ROLE_GRANTED", "user",
                                  user_id, [role |-> role_name])
                  ELSE log]

\* grant_role that leaves the existing assignment to the store and raises
\* when the INSERT is refused.
GrantResult_RaisesOnExisting(table, log, user_id, role_name, actor_user_id) ==
    IF role_name \notin roles
    THEN [outcome |-> "False", table |-> table, log |-> log]
    ELSE IF ActiveAssignments(table, user_id, role_name) # {}
    THEN [outcome |-> "IntegrityError", table |-> table, log |-> log]
    ELSE [outcome |-> "True",
          table |-> Append(table, UserRoleRow(user_id, role_name, actor_user_id, now)),
          log |-> IF actor_user_id # NULL
                  THEN log_action(log, actor_user_id, "ROLE_GRANTED", "user",
                                  user_id, [role |-> role_name])
                  ELSE log]

\* The result of grant_role on a committed table: the outcome, the table
\* and the audit log it leaves.
GrantResult(table, log, user_id, role_name, actor_user_id) ==
    LET existing == ActiveAssignments(table, user_id, role_name)
        inserted == Append(table, UserRoleRow(user_id, role_name, actor_user_id, now))
    IN  IF role_name \notin roles
        THEN [outcome |-> "False", table |-> table, log |-> log]
        ELSE IF existing # {}
        THEN [outcome |-> "False", table |-> table, log |-> log]
        ELSE IF ~uq_user_roles_active(inserted)
        THEN [outcome |-> "IntegrityError", table |-> table, log |-> log]
        ELSE [outcome |-> "True", table |-> inserted,
              log |-> IF actor_user_id # NULL
                      THEN log_action(log, actor_user_id, "ROLE_GRANTED", "user",
                                      user_id, [role |-> role_name])
                      ELSE log]

\* grant_role(user, role_name, actor_user_id) called in a request of its own.
grant_role(user_id, role_name, actor_user_id) ==
    LET res == GrantResult(user_roles, audit_log, user_id, role_name, actor_user_id)
    IN  /\ user_id \in DOMAIN users
        /\ res.outcome = "True" =>
              /\ now < MaxTime
              /\ Len(res.table) <= MaxRows
              /\ Len(res.log) <= MaxAudit
        /\ user_roles' = res.table
        /\ audit_log' = res.log
        /\ now' = IF res.outcome = "True" THEN now + 1 ELSE now
        /\ UNCHANGED <<users, roles, response, reqs, legacy_tables>>
        /\ UNCHANGED <<semester_tables, committee_tables, dues_tables>>

\* An UPDATE that matches the rows but leaves revoked_at as it was.
RevokeUpdate_NoTimestamp(table, user_id, role_name) ==
    [i \in Indices(table) |-> table[i]]

\* The UPDATE of revoke_role: revoked_at = utcnow() on every matching row.
RevokeUpdate(table, user_id, role_name) ==
    [i \in Indices(table) |->
        IF i \in ActiveAssignments(table, user_id, role_name)
        THEN [table[i] EXCEPT !.revoked_at = now]
        ELSE table[i]]

RevokeResult(table, log, user_id, role_name, actor_user_id) ==
    LET rowcount == Cardinality(ActiveAssignments(table, user_id, role_name))
        updated == RevokeUpdate(table, user_id, role_name)
    IN  IF role_name \notin roles
        THEN [outcome |-> "False", table |-> table, log |-> log]
        ELSE IF ~uq_user_roles_active(updated)
        THEN [outcome |-> "IntegrityError", table |-> table, log |-> log]
        ELSE IF rowcount = 0
        THEN [outcome |-> "False", table |-> table, log |-> log]
        ELSE [outcome |-> "True", table |-> updated,
              log |-> IF actor_user_id # NULL
                      THEN log_action(log, actor_user_id, "ROLE_REVOKED", "user",
                                      user_id, [role |-> role_name])
                      ELSE log]

\* revoke_role(user, role_name, actor_user_id) called in a request of its own.
revoke_role(user_id, role_name, actor_user_id) ==
    LET res == RevokeResult(user_roles, audit_log, user_id, role_name, actor_user_id)
    IN  /\ user_id \in DOMAIN users
        /\ res.outcome = "True" =>
              /\ now < MaxTime
              /\ Len(res.log) <= MaxAudit
        /\ user_roles' = res.table
        /\ audit_log' = res.log
        /\ now' = IF res.outcome = "True" THEN now + 1 ELSE now
        /\ UNCHANGED <<users, roles, response, reqs, legacy_tables>>
        /\ UNCHANGED <<semester_tables, committee_tables, dues_tables>>

----------------------------------------------------------------------------
(* Legacy writers of user_roles: app.py and database.py.  These go through *)
(* the ORM relationship User.roles: appending a role INSERTs a row with    *)
(* granted_by_user_id = NULL, granted_at = utcnow() (the column default)   *)
(* and revoked_at = NULL; removing one DELETEs the pair's rows.            *)

\* user.roles.append(role) followed by a flush.
RolesAppend(table, user_id, role_name) ==
    Append(table, UserRoleRow(user_id, role_name, NULL, now))

\* The id a newly inserted users row receives.
NewUserId == Max(DOMAIN users \cup {0}) + 1

NewUser(phone) == [phone |-> phone, status |-> "active", is_active |-> TRUE]

\* Rows that hold a foreign key to a user and are not removed with it.
ReferencesUser(user_id) ==
    \/ \E i \in Indices(audit_log) : audit_log[i].actor_user_id = user_id
    \/ \E i \in Indices(user_roles) : /\ user_roles[i].granted_by_user_id = user_id
                                      /\ user_roles[i].user_id # user_id

\* The table without the rows of a user (the DELETEs the ORM issues for the
\* user's roles collection when the user is deleted).
WithoutUser(table, user_id) ==
    SelectSeq(table, LAMBDA row : row.user_id # user_id)

\* Approval that appends the brother role without looking at user.roles.
ApproveAppends_Unchecked(table, user_id) ==
    ROLE_BROTHER \in roles

\* "if brother_role and brother_role not in user.roles"
ApproveAppends(table, user_id) ==
    /\ ROLE_BROTHER \in roles
    /\ ROLE_BROTHER \notin User_roles(table, user_id)

\* /verify_brothers POST.  permitted is the legacy session permission
\* 'manage_users'.  Linking a Member row and the SMS are not modelled.
verify_brothers(permitted, user_id, action) ==
    LET appended == RolesAppend(user_roles, user_id, ROLE_BROTHER)
        approve_appends == ApproveAppends(user_roles, user_id)
        \* one DELETE per role of the collection must match one row each
        stale == \E r \in User_roles(user_roles, user_id) :
                    Cardinality({i \in Indices(user_roles) :
                                    /\ user_roles[i].user_id = user_id
                                    /\ user_roles[i].role_id = r}) > 1
    IN  /\ IF ~permitted \/ user_id \notin DOMAIN users \/ action \notin {"approve", "reject"}
           THEN UNCHANGED <<users, user_roles, now>>
           ELSE IF action = "approve"
           THEN /\ users' = [users EXCEPT ![user_id].status = "active"]
                /\ IF approve_appends
                   THEN /\ now < MaxTime
                        /\ Len(appended) <= MaxRows
                        /\ user_roles' = appended
                        /\ now' = now + 1
                   ELSE UNCHANGED <<user_roles, now>>
           ELSE \* reject: db.session.delete(user)
                \/ /\ users' = [u \in DOMAIN users \ {user_id} |-> users[u]]
                   /\ user_roles' = WithoutUser(user_roles, user_id)
                   /\ UNCHANGED now
                \/ \* the store refuses the DELETE (foreign key still
                   \* referenced, or a DELETE matching several rows):
                   \* the handler rolls back
                   /\ ReferencesUser(user_id) \/ stale
                   /\ UNCHANGED <<users, user_roles, now>>
        /\ UNCHANGED <<roles, audit_log, response, reqs, legacy_tables>>
        /\ UNCHANGED <<semester_tables, committee_tables, dues_tables>>

\* The committees table after init_database added the missing defaults.
RECURSIVE EnsureCommittees(_, _)
EnsureCommittees(table, names) ==
    IF names = << >> THEN table
    ELSE IF \E i \in Indices(table) : table[i].name = Head(names)
    THEN EnsureCommittees(table, Tail(names))
    ELSE EnsureCommittees(Append(table, [name |-> Head(names), is_active |-> TRUE]),
                          Tail(names))

\* The brother rows init_database appends: one for every active user whose
\* roles collection is empty.
RECURSIVE DefaultBrotherRows(_, _, _)
DefaultBrotherRows(table, usrs, ids) ==
    IF ids = {} THEN table
    ELSE LET u == CHOOSE x \in ids : \A y \in ids : x <= y
         IN  IF usrs[u].is_active /\ User_roles(table, u) = {}
             THEN DefaultBrotherRows(RolesAppend(table, u, ROLE_BROTHER), usrs, ids \ {u})
             ELSE DefaultBrotherRows(table, usrs, ids \ {u})

\* init_database: run at start-up and by /debug/init_db.
init_database ==
    LET roles1 == roles \cup DEFAULT_ROLES
        admin_users == {u \in DOMAIN users : users[u].phone = ADMIN_PHONE}
        admin_with_role == \E i \in Indices(user_roles) :
                              /\ user_roles[i].role_id = ROLE_ADMIN
                              /\ user_roles[i].user_id \in DOMAIN users
        users1 == IF admin_users = {}
                  THEN [u \in DOMAIN users \cup {NewUserId} |->
                           IF u = NewUserId THEN NewUser(ADMIN_PHONE) ELSE users[u]]
                  ELSE users
        rows1 == IF admin_users = {}
                 THEN RolesAppend(user_roles, NewUserId, ROLE_ADMIN)
                 ELSE IF ~admin_with_role
                 THEN RolesAppend(user_roles, CHOOSE u \in admin_users : TRUE, ROLE_ADMIN)
                 ELSE user_roles
        rows2 == DefaultBrotherRows(rows1, users1, DOMAIN users1)
        ebubechi == {u \in DOMAIN users1 : users1[u].phone = EBUBECHI_PHONE}
        new_id == Max(DOMAIN users1 \cup {0}) + 1
        users2 == IF ebubechi = {}
                  THEN [u \in DOMAIN users1 \cup {new_id} |->
                           IF u = new_id THEN NewUser(EBUBECHI_PHONE) ELSE users1[u]]
                  ELSE users1
    IN  /\ DOMAIN users2 \subseteq UserIds
        /\ Len(rows2) <= MaxRows
        /\ rows2 # user_roles => now < MaxTime
        /\ roles' = roles1
        /\ users' = users2
        /\ user_roles' = rows2
        /\ now' = IF rows2 # user_roles THEN now + 1 ELSE now
        /\ committees' = EnsureCommittees(committees, COMMITTEE_NAMES)
        /\ UNCHANGED <<audit_log, response, reqs, legacy_tables>>
        /\ UNCHANGED <<semester_tables, dues_tables>>
        /\ UNCHANGED <<committee_budget_allocations, committee_transactions>>

\* /debug/fix_admin_role
debug_fix_admin_role ==
    LET admin_users == {u \in DOMAIN users : users[u].phone = ADMIN_PHONE}
        admin_user == CHOOSE u \in admin_users : TRUE
    IN  /\ IF admin_users = {} \/ ROLE_ADMIN \notin roles
           THEN UNCHANGED <<user_roles, now>>
           ELSE IF ROLE_ADMIN \notin User_roles(user_roles, admin_user)
           THEN /\ now < MaxTime
                /\ Len(user_roles) < MaxRows
                /\ user_roles' = RolesAppend(user_roles, admin_user, ROLE_ADMIN)
                /\ now' = now + 1
           ELSE UNCHANGED <<user_roles, now>>
        /\ UNCHANGED <<users, roles, audit_log, response, reqs, legacy_tables>>
        /\ UNCHANGED <<semester_tables, committee_tables, dues_tables>>

\* /assign_role.  The handler reads Member.role in a query filter and
\* member.user, neither of which the Member model defines: for a role other
\* than 'brother' the filter_by(role=...) raises, for 'brother' the access
\* to member.user raises.  Both land in the handler's except branch, which
\* rolls the session back, so no path of the handler writes user_roles.
assign_role(permitted, member_found, role) ==
    /\ permitted \in BOOLEAN /\ member_found \in BOOLEAN
    /\ UNCHANGED <<users, roles, user_roles, audit_log, now, response, reqs, legacy_tables>>
    /\ UNCHANGED <<semester_tables, committee_tables, dues_tables>>

----------------------------------------------------------------------------
(* The role store under serial requests *)

\* The portal tables of a database init_database created: the three
\* committees and no semester, event, allocation, transaction, charge or
\* payment.
InitPortalTables ==
    /\ semesters = << >>
    /\ events = << >>
    /\ committees = EnsureCommittees(<< >>, COMMITTEE_NAMES)
    /\ committee_budget_allocations = << >>
    /\ committee_transactions = << >>
    /\ dues_charges = << >>
    /\ dues_payments = << >>
    /\ dues_payment_allocations = << >>

\* The store after init_database ran on an empty database (the admin account
\* with its admin row, the Ebubechi account without roles) and one brother
\* registered and awaits approval.
InitUsers ==
    (1 :> [phone |-> ADMIN_PHONE, status |-> "active", is_active |-> TRUE]) @@
    (2 :> [phone |-> EBUBECHI_PHONE, status |-> "active", is_active |-> TRUE]) @@
    (3 :> [phone |-> "5550003", status |-> "pending", is_active |-> TRUE])

Init ==
    /\ users = InitUsers
    /\ roles = DEFAULT_ROLES
    /\ user_roles = <<UserRoleRow(1, ROLE_ADMIN, NULL, 1)>>
    /\ audit_log = << >>
    /\ now = 2
    /\ response = NoResponse
    /\ reqs = << >>
    /\ db_transactions = << >>
    /\ db_payments = << >>
    /\ InitPortalTables

Next ==
    \/ \E u \in UserIds, r \in RoleNameInputs, a \in ActorInputs : grant_role(u, r, a)
    \/ \E u \in UserIds, r \in RoleNameInputs, a \in ActorInputs : revoke_role(u, r, a)
    \/ \E p \in BOOLEAN, u \in UserIds, a \in {"approve", "reject"} : verify_brothers(p, u, a)
    \/ init_database
    \/ debug_fix_admin_role
    \/ \E p \in BOOLEAN, m \in BOOLEAN, r \in {ROLE_BROTHER, ROLE_PRESIDENT} : assign_role(p, m, r)

Spec == Init /\ [][Next]_vars

----------------------------------------------------------------------------
(* Claims about the role store *)

\* An audit entry records that grant_role / revoke_role acted on the pair.
Logged(action, user_id, role_name) ==
    \E i \in Indices(audit_log) :
        /\ audit_log[i].action = action
        /\ audit_log[i].target_id = user_id
        /\ audit_log[i].details = [role |-> role_name]

\* C1: for every user U and existing role R, right after a grant_role(U, R)
\* that returns True has_role(U, R) is true, and a grant_role(U, R) made
\* while the assignment is non-revoked returns False and adds no row.
C1_GrantThenHasRole ==
    /\ [][\A u \in UserIds, r \in RoleNameInputs, a \in ActorInputs :
            (/\ grant_role(u, r, a)
             /\ GrantResult(user_roles, audit_log, u, r, a).outcome = "True")
            => has_role(u, r)']_vars
    /\ [](\A u \in UserIds, r \in roles, a \in ActorInputs :
            has_role(u, r) =>
                LET again == GrantResult(user_roles, audit_log, u, r, a)
                IN  /\ again.outcome = "False"
                    /\ again.table = user_roles)

\* grant_role granted a pair that is still active: a further grant meets it.
C1_Witness ==
    \E u \in UserIds, r \in roles :
        /\ has_role(u, r)
        /\ Logged("ROLE_GRANTED", u, r)

\* C2: for every (U, R) with an active assignment the first revoke_role
\* returns True and revokes it, and a second revoke_role with no grant in
\* between returns False; on a pair without active assignment it returns
\* False.
C2_RevokeOnce ==
    /\ [](\A u \in DOMAIN users, r \in RoleNameInputs, a \in ActorInputs :
            LET first == RevokeResult(user_roles, audit_log, u, r, a)
                second == RevokeResult(first.table, first.log, u, r, a)
            IN  IF ActiveAssignments(user_roles, u, r) # {}
                THEN first.outcome = "True" /\ second.outcome = "False"
                ELSE first.outcome = "False")
    /\ [][\A u \in UserIds, r \in RoleNameInputs, a \in ActorInputs :
            (/\ revoke_role(u, r, a)
             /\ RevokeResult(user_roles, audit_log, u, r, a).outcome = "True")
            => ~has_role(u, r)']_vars

\* revoke_role revoked a pair, which has no active assignment now.
C2_Witness ==
    \E u \in UserIds, r \in roles :
        /\ Logged("ROLE_REVOKED", u, r)
        /\ ActiveAssignments(user_roles, u, r) = {}
        /\ \E i \in Indices(user_roles) :
              /\ user_roles[i].user_id = u
              /\ user_roles[i].role_id = r
              /\ user_roles[i].revoked_at # NULL

\* C3: in every state reached by serial grant_role, revoke_role and the
\* legacy writers, each (user, role) pair has at most one row with
\* revoked_at = NULL.
C3_AtMostOneActive ==
    \A u \in UserIds, r \in roles :
        Cardinality(ActiveAssignments(user_roles, u, r)) <= 1

\* A pair was granted, revoked and granted again, next to legacy rows.
C3_Witness ==
    /\ \E u \in UserIds, r \in roles :
          /\ Cardinality(ActiveAssignments(user_roles, u, r)) = 1
          /\ \E i \in Indices(user_roles) :
                /\ user_roles[i].user_id = u
                /\ user_roles[i].role_id = r
                /\ user_roles[i].revoked_at # NULL
    /\ \E i \in Indices(user_roles) : user_roles[i].granted_by_user_id = NULL

----------------------------------------------------------------------------
(* grant_role under concurrent requests.  Each request runs grant_role in  *)
(* a transaction of its own: the two SELECTs (rbac.py 146-155) read the    *)
(* committed table; the INSERT, the audit entry and the COMMIT (158-175)   *)
(* follow in a later step, so other requests may run in between.           *)

Requests == 1..NumRequests

IdleRequest ==
    [pc |-> "idle", user_id |-> NULL, role_name |-> "", actor_user_id |-> NULL,
     outcome |-> "none"]

\* Lines 146-157: look the role up, look for a non-revoked assignment.
grant_role_select(p, user_id, role_name, actor_user_id) ==
    LET existing == ActiveAssignments(user_roles, user_id, role_name)
        call == [IdleRequest EXCEPT !.user_id = user_id, !.role_name = role_name,
                                    !.actor_user_id = actor_user_id]
    IN  /\ reqs[p].pc = "idle"
        /\ user_id \in DOMAIN users
        /\ reqs' = [reqs EXCEPT ![p] =
                      IF role_name \notin roles \/ existing # {}
                      THEN [call EXCEPT !.pc = "done", !.outcome = "False"]
                      ELSE [call EXCEPT !.pc = "checked"]]
        /\ UNCHANGED <<users, roles, user_roles, audit_log, now, response>>
        /\ UNCHANGED <<semester_tables, committee_tables, dues_tables, legacy_tables>>

\* Lines 158-176: INSERT the row, add the audit entry, COMMIT.  The store
\* rejects the INSERT when it breaks uq_user_roles_active.
grant_role_commit(p) ==
    LET r == reqs[p]
        inserted == Append(user_roles,
                           UserRoleRow(r.user_id, r.role_name, r.actor_user_id, now))
    IN  /\ r.pc = "checked"
        /\ IF ~uq_user_roles_active(inserted)
           THEN /\ reqs' = [reqs EXCEPT ![p].pc = "done", ![p].outcome = "IntegrityError"]
                /\ UNCHANGED <<user_roles, audit_log, now>>
           ELSE /\ now < MaxTime
                /\ Len(inserted) <= MaxRows
                /\ r.actor_user_id # NULL => Len(audit_log) < MaxAudit
                /\ user_roles' = inserted
                /\ audit_log' = IF r.actor_user_id # NULL
                                THEN log_action(audit_log, r.actor_user_id, "ROLE_GRANTED",
                                                "user", r.user_id, [role |-> r.role_name])
                                ELSE audit_log
                /\ now' = now + 1
                /\ reqs' = [reqs EXCEPT ![p].pc = "done", ![p].outcome = "True"]
        /\ UNCHANGED <<users, roles, response>>
        /\ UNCHANGED <<semester_tables, committee_tables, dues_tables, legacy_tables>>

InitConcurrent ==
    /\ users = InitUsers
    /\ roles = DEFAULT_ROLES
    /\ user_roles = <<UserRoleRow(1, ROLE_ADMIN, NULL, 1)>>
    /\ audit_log = << >>
    /\ now = 2
    /\ response = NoResponse
    /\ reqs = [p \in Requests |-> IdleRequest]
    /\ db_transactions = << >>
    /\ db_payments = << >>
    /\ InitPortalTables

NextConcurrent ==
    \/ \E p \in Requests, u \in UserIds, r \in RoleNameInputs, a \in ActorInputs :
          grant_role_select(p, u, r, a)
    \/ \E p \in Requests : grant_role_commit(p)

SpecConcurrent == InitConcurrent /\ [][NextConcurrent]_vars

\* C4: of two grant_role calls for the same (user, role) pair that run
\* concurrently, each checking before either commits, at most one succeeds
\* and at most one active row for the pair exists afterwards, the second
\* INSERT being rejected by the uniqueness constraint.
C4_ConcurrentGrantsExclusive ==
    \A p, q \in Requests :
        (/\ p # q
         /\ reqs[p].pc = "done" /\ reqs[q].pc = "done"
         /\ reqs[p].user_id = reqs[q].user_id
         /\ reqs[p].role_name = reqs[q].role_name)
        => /\ ~(reqs[p].outcome = "True" /\ reqs[q].outcome = "True")
           /\ Cardinality(ActiveAssignments(user_roles, reqs[p].user_id,
                                            reqs[p].role_name)) <= 1

----------------------------------------------------------------------------
(* portal.py: what the handlers share *)

\* str.lower() on the season and committee names the requests carry.
lower(text) ==
    CASE text = "Fall" -> "fall"
      [] text = "Spring" -> "spring"
      [] text = "Brotherhood" -> "brotherhood"
      [] text = "Social" -> "social"
      [] text = "Recruitment" -> "recruitment"
      [] OTHER -> text

\* int(text) on the form values the requests carry; any other text raises
\* ValueError and None raises TypeError.
IntValues ==
    ("0" :> 0) @@ ("500" :> 500) @@ ("-500" :> -500) @@ ("1000" :> 1000) @@
    ("2000" :> 2000) @@ ("2500" :> 2500) @@ ("50000" :> 50000) @@
    ("2024" :> 2024) @@ ("2025" :> 2025) @@
    ("1" :> 1) @@ ("2" :> 2) @@ ("3" :> 3)

IsInt(text) == text \in DOMAIN IntValues

int(text) == IntValues[text]

\* request.form.get(field, default)
form_get(value, default) == IF value = None THEN default ELSE value

\* An amount taken with the sign it was submitted with.
abs_Signed(n) == n

abs(n) == IF n < 0 THEN -n ELSE n

\* sum() over a list of integers.
RECURSIVE sum(_)
sum(list) == IF list = << >> THEN 0 ELSE Head(list) + sum(Tail(list))

COMMITTEE_ROLE_MAP ==
    ("brotherhood" :> ROLE_CHAIR_BROTHERHOOD) @@
    ("social" :> ROLE_CHAIR_SOCIAL) @@
    ("recruitment" :> ROLE_CHAIR_RECRUITMENT)

\* A check that accepts the chair of any committee.
can_manage_committee_AnyChair(user_id, committee_name) ==
    \/ has_any_role(user_id, EXECUTIVE_ROLES)
    \/ /\ committee_name \in DOMAIN COMMITTEE_ROLE_MAP
       /\ \E c \in DOMAIN COMMITTEE_ROLE_MAP : has_role(user_id, COMMITTEE_ROLE_MAP[c])

\* rbac.can_manage_committee
can_manage_committee(user_id, committee_name) ==
    \/ has_any_role(user_id, EXECUTIVE_ROLES)
    \/ /\ committee_name \in DOMAIN COMMITTEE_ROLE_MAP
       /\ has_role(user_id, COMMITTEE_ROLE_MAP[committee_name])

\* Primary keys of the semesters flagged current.
CurrentSemesters(table) == {i \in Indices(table) : table[i].is_current}

\* get_current_semester: the rows .first() may return, NULL for None.  The
\* query has no ORDER BY, so with several current rows the store picks.
get_current_semester(table) ==
    IF CurrentSemesters(table) = {} THEN {NULL} ELSE CurrentSemesters(table)

\* Committee.query.filter_by(name=...).first(); names are unique.
CommitteeByName(name) ==
    IF \E i \in Indices(committees) : committees[i].name = name
    THEN CHOOSE i \in Indices(committees) : committees[i].name = name
    ELSE NULL

\* The accounts and grants the portal runs on: the admin account, a
\* president granted by the admin, and an approved brother who chairs the
\* Social committee.
PortalUsers ==
    (1 :> [phone |-> ADMIN_PHONE, status |-> "active", is_active |-> TRUE]) @@
    (2 :> [phone |-> EBUBECHI_PHONE, status |-> "active", is_active |-> TRUE]) @@
    (3 :> [phone |-> "5550003", status |-> "active", is_active |-> TRUE])

PortalUserRoles ==
    <<UserRoleRow(1, ROLE_ADMIN, NULL, 1),
      UserRoleRow(2, ROLE_PRESIDENT, 1, 1),
      UserRoleRow(3, ROLE_BROTHER, NULL, 1),
      UserRoleRow(3, ROLE_CHAIR_SOCIAL, 1, 1)>>

\* The primary keys of a table, in the order a query without ORDER BY
\* returns its rows.
Keys(table) == [i \in 1..Len(table) |-> i]

\* query.first(): the first row of a result list, NULL for None.
first(list) == IF list = << >> THEN NULL ELSE Head(list)

\* What the portal handlers start from: the roles, grants and committees,
\* an empty audit log and no request served.
InitPortal ==
    /\ roles = DEFAULT_ROLES
    /\ user_roles = PortalUserRoles
    /\ audit_log = << >>
    /\ now = 2
    /\ response = NoResponse
    /\ reqs = << >>
    /\ db_transactions = << >>
    /\ db_payments = << >>
    /\ committees = EnsureCommittees(<< >>, COMMITTEE_NAMES)

----------------------------------------------------------------------------
(* portal.py: semester rollover and events *)

\* f"{season.lower()}_{year}", kept as the pair of its two parts.
SemesterId(season, year) == <<lower(season), year>>

SemesterRow(semester_id, name, year, season, start_date, is_current) ==
    [id |-> semester_id, name |-> name, year |-> year, season |-> season,
     start_date |-> start_date, is_current |-> is_current]

EventRow(semester_id, committee_id, created_by, is_archived, is_deleted) ==
    [semester_id |-> semester_id, committee_id |-> committee_id,
     created_by |-> created_by, created_by_user_id |-> created_by,
     is_archived |-> is_archived, is_deleted |-> is_deleted,
     updated_by_user_id |-> NULL, updated_at |-> 1]

\* A confirmation check that accepts every token that was sent.
ConfirmMatches_AnyToken(confirm) == confirm # None

\* not (confirm != "ROLL_OVER")
ConfirmMatches(confirm) == confirm = "ROLL_OVER"

\* A rollover that leaves the current flag of the old semester set.
ClearCurrent_Keep(table, cur) == table

\* current_semester.is_current = False
ClearCurrent(table, cur) ==
    IF cur = NULL THEN table ELSE [table EXCEPT ![cur].is_current = FALSE]

\* An archive step that skips the soft-deleted events.
ArchiveEvents_SkipDeleted(table, semester_id) ==
    [i \in Indices(table) |->
        IF table[i].semester_id = semester_id /\ ~table[i].is_deleted
        THEN [table[i] EXCEPT !.is_archived = TRUE, !.updated_at = now]
        ELSE table[i]]

\* Event.query.filter_by(semester_id=...).update({"is_archived": True});
\* the UPDATE also sets updated_at through the column's onupdate.
ArchiveEvents(table, semester_id) ==
    [i \in Indices(table) |->
        IF table[i].semester_id = semester_id
        THEN [table[i] EXCEPT !.is_archived = TRUE, !.updated_at = now]
        ELSE table[i]]

\* A semesters table without its primary key constraint.
SemesterInsertable_NameOnly(table, row) == row.name # None

\* The INSERT of a semesters row: id is the primary key, name is NOT NULL.
SemesterInsertable(table, row) ==
    /\ row.name # None
    /\ \A i \in Indices(table) : table[i].id # row.id

\* A role check that lets every executive role roll the semester over.
RolloverAllowed_Executives(current_user) ==
    has_any_role(current_user, EXECUTIVE_ROLES)

\* has_any_role(current_user, ROLE_VICE_PRESIDENT, ROLE_PRESIDENT)
RolloverAllowed(current_user) ==
    has_any_role(current_user, {ROLE_VICE_PRESIDENT, ROLE_PRESIDENT})

\* POST /portal/admin/semester/rollover.  form holds the request's confirm,
\* name, season and year fields.
semester_rollover(current_user, form) ==
    /\ current_user \in DOMAIN users
    /\ IF ~RolloverAllowed(current_user)
       THEN /\ response' = Response("semester_rollover", "403", NULL)
            /\ UNCHANGED <<semester_tables, audit_log, now>>
       ELSE IF ~ConfirmMatches(form.confirm)
       THEN /\ response' = Response("semester_rollover", "mismatch", NULL)
            /\ UNCHANGED <<semester_tables, audit_log, now>>
       ELSE IF ~IsInt(form.year) \/ form.season = None
       THEN \* int(request.form.get("year")) or season.lower() raises
            /\ response' = Response("semester_rollover", "500", NULL)
            /\ UNCHANGED <<semester_tables, audit_log, now>>
       ELSE \E cur \in get_current_semester(semesters) :
               LET year == int(form.year)
                   semester_id == SemesterId(form.season, year)
                   cleared == ClearCurrent(semesters, cur)
                   archived == IF cur = NULL THEN events
                               ELSE ArchiveEvents(events, semesters[cur].id)
                   new_semester == SemesterRow(semester_id, form.name, year,
                                               form.season, now, TRUE)
               IN  IF ~SemesterInsertable(cleared, new_semester)
                   THEN \* the flush raises IntegrityError: the request's
                        \* transaction is rolled back
                        /\ response' = Response("semester_rollover", "500", NULL)
                        /\ UNCHANGED <<semester_tables, audit_log, now>>
                   ELSE /\ Len(audit_log) < MaxAudit
                        /\ response' = Response("semester_rollover", "success", NULL)
                        /\ semesters' = Append(cleared, new_semester)
                        /\ events' = archived
                        /\ audit_log' = log_action(audit_log, current_user,
                                                   "SEMESTER_ROLLOVER", "semester",
                                                   NULL, [name |-> form.name])
                        /\ now' = now + 1
    /\ UNCHANGED <<users, roles, user_roles, reqs, legacy_tables, committee_tables, dues_tables>>

can_edit_event(user_id, event) ==
    \/ has_any_role(user_id, EXECUTIVE_ROLES)
    \/ event.created_by_user_id = user_id
    \/ event.created_by = user_id
    \/ /\ event.committee_id # NULL
       /\ event.committee_id \in Indices(committees)
       /\ can_manage_committee(user_id, lower(committees[event.committee_id].name))

\* POST /portal/events/<event_id>/delete
delete_event(current_user, event_id) ==
    /\ current_user \in DOMAIN users
    /\ IF event_id \notin Indices(events)
       THEN /\ response' = Response("delete_event", "404", NULL)
            /\ UNCHANGED <<events, audit_log, now>>
       ELSE IF ~can_edit_event(current_user, events[event_id])
       THEN /\ response' = Response("delete_event", "403", NULL)
            /\ UNCHANGED <<events, audit_log, now>>
       ELSE /\ Len(audit_log) < MaxAudit
            /\ events' = [events EXCEPT ![event_id].is_deleted = TRUE,
                                        ![event_id].updated_by_user_id = current_user,
                                        ![event_id].updated_at = now]
            /\ audit_log' = log_action(audit_log, current_user, "EVENT_DELETED",
                                       "event", event_id, NULL)
            /\ now' = now + 1
            /\ response' = Response("delete_event", "success", NULL)
    /\ UNCHANGED <<users, roles, user_roles, reqs, legacy_tables, semesters, committee_tables, dues_tables>>

\* POST /portal/events.  The Event the handler builds carries no category,
\* a NOT NULL column without default: the INSERT raises IntegrityError on
\* every path that gets that far, and the transaction is rolled back.
create_event(current_user, title, committee_name, starts_at) ==
    LET committee == IF committee_name = None THEN NULL
                     ELSE CommitteeByName(committee_name)
        outcome ==
            IF title = "" THEN "error"
            ELSE IF CurrentSemesters(semesters) = {} THEN "error"
            ELSE IF committee # NULL
                    /\ ~can_manage_committee(current_user, lower(committees[committee].name))
            THEN "403"
            ELSE IF starts_at = None THEN "error"
            ELSE "500"
    IN  /\ current_user \in DOMAIN users
        /\ response' = Response("create_event", outcome, NULL)
        /\ UNCHANGED <<users, roles, user_roles, audit_log, now, reqs, legacy_tables>>
        /\ UNCHANGED <<semester_tables, committee_tables, dues_tables>>

\* The forms of the rollover requests: the confirmed ones name a season
\* and a year, the others carry a wrong token or none.
SeasonInputs == {"Fall", "fall", "Spring"}
YearInputs == {"2024", "2025"}

RolloverForm(confirm, season, year) ==
    [confirm |-> confirm, name |-> "Next term", season |-> season, year |-> year]

RolloverForms ==
    {RolloverForm("ROLL_OVER", s, y) : s \in SeasonInputs, y \in YearInputs} \cup
    {RolloverForm(c, "Spring", "2025") : c \in {"WRONG", "roll_over", None}}

\* Semesters and events the store holds when the portal starts: none; a
\* current semester with two events, one of them soft-deleted; the same
\* next to a past semester and its archived event.
SemesterSeeds ==
    {[semesters |-> << >>, events |-> << >>],
     [semesters |-> <<SemesterRow(SemesterId("Fall", 2024), "Fall 2024", 2024,
                                  "Fall", 1, TRUE)>>,
      events |-> <<EventRow(SemesterId("Fall", 2024), 2, 3, FALSE, FALSE),
                   EventRow(SemesterId("Fall", 2024), NULL, 1, FALSE, TRUE)>>],
     [semesters |-> <<SemesterRow(SemesterId("Spring", 2024), "Spring 2024", 2024,
                                  "Spring", 1, FALSE),
                      SemesterRow(SemesterId("Fall", 2024), "Fall 2024", 2024,
                                  "Fall", 1, TRUE)>>,
      events |-> <<EventRow(SemesterId("Spring", 2024), 2, 3, FALSE, FALSE),
                   EventRow(SemesterId("Fall", 2024), 2, 3, FALSE, FALSE),
                   EventRow(SemesterId("Fall", 2024), NULL, 1, FALSE, TRUE)>>]}

InitSemester ==
    /\ InitPortal
    /\ users = PortalUsers
    /\ \E seed \in SemesterSeeds :
          /\ semesters = seed.semesters
          /\ events = seed.events
    /\ committee_budget_allocations = << >>
    /\ committee_transactions = << >>
    /\ dues_charges = << >>
    /\ dues_payments = << >>
    /\ dues_payment_allocations = << >>

NextSemester ==
    \/ \E u \in DOMAIN users, f \in RolloverForms : semester_rollover(u, f)
    \/ \E u \in DOMAIN users, e \in 1..(Len(events) + 1) : delete_event(u, e)
    \/ \E u \in DOMAIN users, t \in {"Mixer", ""}, st \in {"2025-01-10T20:00", None} :
          create_event(u, t, "Brotherhood", st)

SpecSemester == InitSemester /\ [][NextSemester]_vars

----------------------------------------------------------------------------
(* Claims about semester rollover *)

\* C5: starting with at most one current semester, after any sequence of
\* rollover calls (successful, token-rejected or unauthorized) at most one
\* Semester row has is_current = true.
C5_AtMostOneCurrent ==
    Cardinality(CurrentSemesters(semesters)) <= 1

\* Two rollovers went through and a later call was turned down.
C5_Witness ==
    /\ Cardinality({i \in Indices(audit_log) :
                        audit_log[i].action = "SEMESTER_ROLLOVER"}) >= 2
    /\ Cardinality(CurrentSemesters(semesters)) = 1
    /\ response.endpoint = "semester_rollover"
    /\ response.outcome \in {"403", "mismatch"}

\* C6: a rollover by a vice_president/president with token "ROLL_OVER" and
\* a new semester id not yet present clears is_current of the previously
\* current semester, sets is_archived on every event of that semester,
\* inserts a new Semester row with is_current = true and appends one
\* SEMESTER_ROLLOVER audit entry; no row is deleted, and the other events
\* and semesters are unchanged.
C6_RolloverEffects ==
    [][\A u \in {x \in DOMAIN users :
                      has_any_role(x, {ROLE_VICE_PRESIDENT, ROLE_PRESIDENT})},
          f \in {x \in RolloverForms : x.confirm = "ROLL_OVER"} :
          (/\ \A i \in Indices(semesters) :
                 semesters[i].id # SemesterId(f.season, int(f.year))
           /\ semester_rollover(u, f))
          => LET old == CurrentSemesters(semesters)
                 old_ids == {semesters[i].id : i \in old}
                 new == Len(semesters) + 1
             IN  /\ Len(semesters') = new
                 /\ semesters'[new].id = SemesterId(f.season, int(f.year))
                 /\ semesters'[new].is_current
                 /\ \A i \in Indices(semesters) :
                       semesters'[i] = IF i \in old
                                       THEN [semesters[i] EXCEPT !.is_current = FALSE]
                                       ELSE semesters[i]
                 /\ Indices(events') = Indices(events)
                 /\ \A i \in Indices(events) :
                       IF events[i].semester_id \in old_ids
                       THEN /\ events'[i].is_archived
                            /\ [events'[i] EXCEPT !.is_archived = FALSE, !.updated_at = 0]
                               = [events[i] EXCEPT !.is_archived = FALSE, !.updated_at = 0]
                       ELSE events'[i] = events[i]
                 /\ Len(audit_log') = Len(audit_log) + 1
                 /\ SubSeq(audit_log', 1, Len(audit_log)) = audit_log
                 /\ audit_log'[Len(audit_log')].action = "SEMESTER_ROLLOVER"
                 /\ audit_log'[Len(audit_log')].actor_user_id = u
                 /\ UNCHANGED <<users, user_roles, committee_tables, dues_tables>>]_vars

\* A rollover closed a semester that had a live and a soft-deleted event,
\* next to a past semester whose event stays as it was.
C6_Witness ==
    /\ response = Response("semester_rollover", "success", NULL)
    /\ Len(semesters) >= 3
    /\ \E i \in Indices(semesters) : semesters[i].is_current
    /\ \E i, j, k \in Indices(events) :
          /\ events[i].is_archived /\ ~events[i].is_deleted
          /\ events[j].is_archived /\ events[j].is_deleted
          /\ ~events[k].is_archived

\* C7: a rollover call whose confirmation token is anything other than the
\* literal "ROLL_OVER", a missing token included, changes no Semester row,
\* no Event row and appends no audit entry.
C7_WrongTokenNoChange ==
    [][\/ UNCHANGED <<semesters, events, audit_log>>
       \/ \A u \in DOMAIN users, f \in RolloverForms :
             f.confirm # "ROLL_OVER" => ~semester_rollover(u, f)]_vars

\* A president's call with a wrong token was turned down while a current
\* semester with events existed.
C7_Witness ==
    /\ response = Response("semester_rollover", "mismatch", NULL)
    /\ CurrentSemesters(semesters) # {}
    /\ \E i \in Indices(events) :
          \E j \in CurrentSemesters(semesters) :
              events[i].semester_id = semesters[j].id /\ ~events[i].is_archived

----------------------------------------------------------------------------
(* portal.py: dues charges, payments and the dues view *)

DuesChargeRow(semester_id, user_id, charge_cents, reason, issued_at, issued_by, is_deleted) ==
    [semester_id |-> semester_id, user_id |-> user_id, charge_cents |-> charge_cents,
     reason |-> reason, issued_at |-> issued_at, issued_by_user_id |-> issued_by,
     is_deleted |-> is_deleted]

\* A payment row credited to the account that recorded it.
DuesPaymentRow_ToRecorder(user_id, amount_cents, paid_at, method, recorded_by, is_deleted) ==
    [user_id |-> recorded_by, amount_cents |-> amount_cents, paid_at |-> paid_at,
     method |-> method, recorded_by_user_id |-> recorded_by, is_deleted |-> is_deleted]

DuesPaymentRow(user_id, amount_cents, paid_at, method, recorded_by, is_deleted) ==
    [user_id |-> user_id, amount_cents |-> amount_cents, paid_at |-> paid_at,
     method |-> method, recorded_by_user_id |-> recorded_by, is_deleted |-> is_deleted]

\* A query for the user's charges that does not filter on is_deleted.
UserCharges_WithDeleted(table, user_id) ==
    SelectSeq(Keys(table), LAMBDA i : table[i].user_id = user_id)

\* DuesCharge.query.filter_by(user_id=current_user.id, is_deleted=False).all()
UserCharges(table, user_id) ==
    SelectSeq(Keys(table), LAMBDA i : table[i].user_id = user_id /\ ~table[i].is_deleted)

\* DuesPayment.query.filter_by(user_id=current_user.id, is_deleted=False).all()
UserPayments(table, user_id) ==
    SelectSeq(Keys(table), LAMBDA i : table[i].user_id = user_id /\ ~table[i].is_deleted)

\* A dues page that leaves the allocations out.
AllocationMap_Empty(user_id, charge_id) == 0

\* allocation_map.get(charge_id, 0): the allocated cents of the allocations
\* joined to the user's payments, per charge.
AllocationMap(user_id, charge_id) ==
    LET allocations ==
            SelectSeq(Keys(dues_payment_allocations), LAMBDA i :
                /\ dues_payment_allocations[i].payment_id \in Indices(dues_payments)
                /\ dues_payments[dues_payment_allocations[i].payment_id].user_id = user_id
                /\ dues_payment_allocations[i].charge_id = charge_id)
    IN  sum([k \in DOMAIN allocations |->
                dues_payment_allocations[allocations[k]].allocated_cents])

\* The values dues() hands to its template; semester is the current
\* semester's key or NULL.
DuesView(current_user, semester) ==
    LET charges == UserCharges(dues_charges, current_user)
        payments == UserPayments(dues_payments, current_user)
        total_charges == sum([k \in DOMAIN charges |-> dues_charges[charges[k]].charge_cents])
        total_payments == sum([k \in DOMAIN payments |-> dues_payments[payments[k]].amount_cents])
        remaining(c) == dues_charges[c].charge_cents - AllocationMap(current_user, c)
        in_current(c) == /\ semester # NULL
                         /\ dues_charges[c].semester_id = semesters[semester].id
        current == SelectSeq(charges, in_current)
        prior == SelectSeq(charges, LAMBDA c : ~in_current(c))
    IN  [user_id |-> current_user,
         balance_cents |-> total_charges - total_payments,
         current_semester_balance |-> sum([k \in DOMAIN current |-> remaining(current[k])]),
         prior_balance |-> sum([k \in DOMAIN prior |-> remaining(prior[k])])]

\* GET /portal/dues
dues(current_user) ==
    /\ current_user \in DOMAIN users
    /\ \E semester \in get_current_semester(semesters) :
          response' = Response("dues", "200", DuesView(current_user, semester))
    /\ UNCHANGED <<users, roles, user_roles, audit_log, now, reqs, legacy_tables>>
    /\ UNCHANGED <<semester_tables, committee_tables, dues_tables>>

\* A query for the users to charge that does not filter on is_active.
ActiveUsers_All(usrs) == DOMAIN usrs

\* User.query.filter_by(is_active=True).all()
ActiveUsers(usrs) == {u \in DOMAIN usrs : usrs[u].is_active}

\* The ids of a set in ascending order.
RECURSIVE Ascending(_)
Ascending(ids) ==
    IF ids = {} THEN << >>
    ELSE LET least == CHOOSE x \in ids : \A y \in ids : x <= y
         IN  <<least>> \o Ascending(ids \ {least})

\* POST /portal/treasurer/dues/charges/batch.  form holds the request's
\* charge_cents and reason fields.
create_dues_batch(current_user, form) ==
    /\ current_user \in DOMAIN users
    /\ IF ~has_any_role(current_user, {ROLE_TREASURER, ROLE_VICE_PRESIDENT, ROLE_PRESIDENT})
       THEN /\ response' = Response("create_dues_batch", "403", NULL)
            /\ UNCHANGED <<dues_charges, audit_log, now>>
       ELSE \E semester \in get_current_semester(semesters) :
               IF semester = NULL
               THEN /\ response' = Response("create_dues_batch", "error", NULL)
                    /\ UNCHANGED <<dues_charges, audit_log, now>>
               ELSE IF ~IsInt(form_get(form.charge_cents, "0"))
               THEN /\ response' = Response("create_dues_batch", "500", NULL)
                    /\ UNCHANGED <<dues_charges, audit_log, now>>
               ELSE LET amount_cents == int(form_get(form.charge_cents, "0"))
                        reason == form_get(form.reason, "Semester dues")
                        active_users == Ascending(ActiveUsers(users))
                        charges == [k \in DOMAIN active_users |->
                                       DuesChargeRow(semesters[semester].id, active_users[k],
                                                     amount_cents, reason, now,
                                                     current_user, FALSE)]
                    IN  /\ Len(audit_log) < MaxAudit
                        /\ response' = Response("create_dues_batch", "success", NULL)
                        /\ dues_charges' = dues_charges \o charges
                        /\ audit_log' = log_action(audit_log, current_user,
                                                   "DUES_CHARGE_BATCH_CREATED", "dues_charge",
                                                   NULL, [count |-> Len(active_users)])
                        /\ now' = now + 1
    /\ UNCHANGED <<users, roles, user_roles, reqs, legacy_tables, semester_tables, committee_tables>>
    /\ UNCHANGED <<dues_payments, dues_payment_allocations>>

\* POST /portal/treasurer/dues/payments.  form holds the request's user_id,
\* amount_cents and method fields.
record_dues_payment(current_user, form) ==
    /\ current_user \in DOMAIN users
    /\ IF ~has_any_role(current_user, {ROLE_TREASURER, ROLE_VICE_PRESIDENT, ROLE_PRESIDENT})
       THEN /\ response' = Response("record_dues_payment", "403", NULL)
            /\ UNCHANGED <<dues_payments, audit_log, now>>
       ELSE IF ~IsInt(form.user_id) \/ ~IsInt(form_get(form.amount_cents, "0"))
       THEN /\ response' = Response("record_dues_payment", "500", NULL)
            /\ UNCHANGED <<dues_payments, audit_log, now>>
       ELSE IF int(form.user_id) \notin DOMAIN users
       THEN \* the foreign key to users rejects the INSERT
            /\ response' = Response("record_dues_payment", "500", NULL)
            /\ UNCHANGED <<dues_payments, audit_log, now>>
       ELSE LET user_id == int(form.user_id)
                payment == DuesPaymentRow(user_id, int(form_get(form.amount_cents, "0")),
                                          now, form_get(form.method, "other"),
                                          current_user, FALSE)
            IN  /\ Len(audit_log) < MaxAudit
                /\ response' = Response("record_dues_payment", "success", NULL)
                /\ dues_payments' = Append(dues_payments, payment)
                /\ audit_log' = log_action(audit_log, current_user,
                                           "DUES_PAYMENT_RECORDED", "dues_payment",
                                           NULL, [user_id |-> user_id])
                /\ now' = now + 1
    /\ UNCHANGED <<users, roles, user_roles, reqs, legacy_tables, semester_tables, committee_tables>>
    /\ UNCHANGED <<dues_charges, dues_payment_allocations>>

\* The forms of the batch charge and payment requests.
BatchForms ==
    {[charge_cents |-> "50000", reason |-> None],
     [charge_cents |-> "2500", reason |-> "Late fee"],
     [charge_cents |-> "abc", reason |-> None]}

PaymentForms ==
    {[user_id |-> "2", amount_cents |-> "2500", method |-> "cash"],
     [user_id |-> "3", amount_cents |-> "50000", method |-> None]}

\* A past semester and the current one.
PastAndCurrent ==
    <<SemesterRow(SemesterId("Spring", 2024), "Spring 2024", 2024, "Spring", 1, FALSE),
      SemesterRow(SemesterId("Fall", 2024), "Fall 2024", 2024, "Fall", 1, TRUE)>>

\* What the store holds when the treasurer starts: no dues rows and three
\* active accounts; rows of the past semester, some soft-deleted, and a
\* suspended, deactivated account; no current semester.
DuesSeeds ==
    {[semesters |-> PastAndCurrent, users |-> PortalUsers,
      dues_charges |-> << >>, dues_payments |-> << >>],
     [semesters |-> PastAndCurrent,
      users |-> [PortalUsers EXCEPT ![3].is_active = FALSE,
                                    ![3].status = "suspended"],
      dues_charges |-> <<DuesChargeRow(SemesterId("Spring", 2024), 2, 50000,
                                       "Semester dues", 1, 2, TRUE),
                         DuesChargeRow(SemesterId("Spring", 2024), 2, 2500,
                                       "Late fee", 1, 2, FALSE)>>,
      dues_payments |-> <<DuesPaymentRow(2, 50000, 1, "cash", 2, TRUE),
                          DuesPaymentRow(2, 500, 1, "cash", 2, FALSE)>>],
     [semesters |-> SubSeq(PastAndCurrent, 1, 1), users |-> PortalUsers,
      dues_charges |-> << >>, dues_payments |-> << >>]}

InitDues ==
    /\ InitPortal
    /\ \E seed \in DuesSeeds :
          /\ users = seed.users
          /\ semesters = seed.semesters
          /\ dues_charges = seed.dues_charges
          /\ dues_payments = seed.dues_payments
    /\ events = << >>
    /\ committee_budget_allocations = << >>
    /\ committee_transactions = << >>
    /\ dues_payment_allocations = << >>

NextDues ==
    \/ \E u \in DOMAIN users : dues(u)
    \/ \E u \in DOMAIN users, f \in BatchForms : create_dues_batch(u, f)
    \/ \E u \in DOMAIN users, f \in PaymentForms : record_dues_payment(u, f)

SpecDues == InitDues /\ [][NextDues]_vars

----------------------------------------------------------------------------
(* Claims about dues *)

\* The cents of a set of charges and of a set of payments, added up.
RECURSIVE SumChargeCents(_)
SumChargeCents(ids) ==
    IF ids = {} THEN 0
    ELSE LET i == CHOOSE x \in ids : TRUE
         IN  dues_charges[i].charge_cents + SumChargeCents(ids \ {i})

RECURSIVE SumAmountCents(_)
SumAmountCents(ids) ==
    IF ids = {} THEN 0
    ELSE LET i == CHOOSE x \in ids : TRUE
         IN  dues_payments[i].amount_cents + SumAmountCents(ids \ {i})

LiveCharges(user_id) ==
    {i \in Indices(dues_charges) :
        dues_charges[i].user_id = user_id /\ ~dues_charges[i].is_deleted}

LivePayments(user_id) ==
    {i \in Indices(dues_payments) :
        dues_payments[i].user_id = user_id /\ ~dues_payments[i].is_deleted}

\* C8: for every user the total dues balance shown equals the sum of
\* charge_cents over the user's non-deleted DuesCharge rows minus the sum of
\* amount_cents over the user's non-deleted DuesPayment rows, and is 0 when
\* there are no charges and no payments.
C8_DuesBalance ==
    /\ \A u \in DOMAIN users, semester \in get_current_semester(semesters) :
          LET shown == DuesView(u, semester).balance_cents
          IN  /\ shown = SumChargeCents(LiveCharges(u)) - SumAmountCents(LivePayments(u))
              /\ (LiveCharges(u) = {} /\ LivePayments(u) = {}) => shown = 0
    /\ response.endpoint = "dues" =>
          response.value.balance_cents =
              SumChargeCents(LiveCharges(response.value.user_id))
              - SumAmountCents(LivePayments(response.value.user_id))

\* The dues page was shown to a user with live and soft-deleted charges and
\* payments, while another user has no row at all.
C8_Witness ==
    /\ response.endpoint = "dues"
    /\ LET u == response.value.user_id
       IN  /\ Cardinality(LiveCharges(u)) >= 2
           /\ LivePayments(u) # {}
           /\ \E i \in Indices(dues_charges) :
                 dues_charges[i].user_id = u /\ dues_charges[i].is_deleted
           /\ \E i \in Indices(dues_payments) :
                 dues_payments[i].user_id = u /\ dues_payments[i].is_deleted
           /\ response.value.balance_cents # 0
    /\ \E v \in DOMAIN users :
          /\ \A i \in Indices(dues_charges) : dues_charges[i].user_id # v
          /\ \A i \in Indices(dues_payments) : dues_payments[i].user_id # v

\* C10: a batch dues charge issued by an authorized actor while a current
\* semester exists and there are N active users creates exactly N DuesCharge
\* rows, one per active user, all with the given amount, reason and the
\* current semester, and appends exactly one audit entry whose details
\* record count = N.
C10_BatchCharge ==
    [][\A u \in {x \in DOMAIN users :
                    has_any_role(x, {ROLE_TREASURER, ROLE_VICE_PRESIDENT, ROLE_PRESIDENT})},
          f \in {x \in BatchForms : IsInt(x.charge_cents)} :
          (/\ CurrentSemesters(semesters) # {}
           /\ create_dues_batch(u, f))
          => LET active == {x \in DOMAIN users : users[x].is_active}
                 N == Cardinality(active)
                 old == Len(dues_charges)
                 created == (old + 1)..Len(dues_charges')
             IN  /\ Len(dues_charges') = old + N
                 /\ SubSeq(dues_charges', 1, old) = dues_charges
                 /\ \A x \in active :
                       Cardinality({i \in created : dues_charges'[i].user_id = x}) = 1
                 /\ \A i \in created :
                       /\ dues_charges'[i].user_id \in active
                       /\ dues_charges'[i].charge_cents = int(f.charge_cents)
                       /\ dues_charges'[i].reason = form_get(f.reason, "Semester dues")
                       /\ \E c \in CurrentSemesters(semesters) :
                             dues_charges'[i].semester_id = semesters[c].id
                       /\ ~dues_charges'[i].is_deleted
                 /\ Len(audit_log') = Len(audit_log) + 1
                 /\ SubSeq(audit_log', 1, Len(audit_log)) = audit_log
                 /\ audit_log'[Len(audit_log')].action = "DUES_CHARGE_BATCH_CREATED"
                 /\ audit_log'[Len(audit_log')].details = [count |-> N]
                 /\ UNCHANGED <<users, dues_payments, semesters>>]_vars

\* A batch was issued while one of the three accounts was deactivated: two
\* charges and an audit entry with count = 2.
C10_Witness ==
    \E a \in Indices(audit_log) :
        /\ audit_log[a].action = "DUES_CHARGE_BATCH_CREATED"
        /\ audit_log[a].details.count = 2
        /\ Cardinality({u \in DOMAIN users : users[u].is_active}) = 2
        /\ Cardinality({i \in Indices(dues_charges) :
                           dues_charges[i].issued_at = audit_log[a].created_at}) = 2

----------------------------------------------------------------------------
(* portal.py: committee allocations, transactions and the committee view *)

AllocationRow(semester_id, committee_id, allocated_cents, allocated_by, allocated_at) ==
    [semester_id |-> semester_id, committee_id |-> committee_id,
     allocated_cents |-> allocated_cents, allocated_by_user_id |-> allocated_by,
     allocated_at |-> allocated_at]

TransactionRow(semester_id, committee_id, amount_cents, created_by, created_at) ==
    [semester_id |-> semester_id, committee_id |-> committee_id,
     amount_cents |-> amount_cents, created_by_user_id |-> created_by,
     created_at |-> created_at, is_deleted |-> FALSE,
     deleted_by_user_id |-> NULL, deleted_at |-> NULL]

\* The keys of a (semester, committee) pair's allocations, latest first:
\* filter_by(semester_id=..., committee_id=...).order_by(allocated_at.desc())
RECURSIVE order_by_allocated_at_desc(_)
order_by_allocated_at_desc(keys) ==
    IF keys = {} THEN << >>
    ELSE LET latest == CHOOSE x \in keys : \A y \in keys :
                          committee_budget_allocations[y].allocated_at
                              <= committee_budget_allocations[x].allocated_at
         IN  <<latest>> \o order_by_allocated_at_desc(keys \ {latest})

PairAllocations(semester_id, committee_id) ==
    order_by_allocated_at_desc(
        {i \in Indices(committee_budget_allocations) :
            /\ committee_budget_allocations[i].semester_id = semester_id
            /\ committee_budget_allocations[i].committee_id = committee_id})

\* A budget that adds up every allocation of the pair.
AllocationCents_Summed(allocations) ==
    sum([k \in DOMAIN allocations |->
            committee_budget_allocations[allocations[k]].allocated_cents])

\* allocation = (...).first(); allocation.allocated_cents if allocation else 0
AllocationCents(allocations) ==
    IF first(allocations) = NULL THEN 0
    ELSE committee_budget_allocations[first(allocations)].allocated_cents

\* CommitteeTransaction.query.filter_by(semester_id=..., committee_id=...,
\* is_deleted=False).all()
PairTransactions(semester_id, committee_id) ==
    SelectSeq(Keys(committee_transactions), LAMBDA i :
        /\ committee_transactions[i].semester_id = semester_id
        /\ committee_transactions[i].committee_id = committee_id
        /\ ~committee_transactions[i].is_deleted)

\* The values committee() hands to its template; semester is the current
\* semester's key or NULL.
CommitteeView(committee, semester) ==
    LET committee_record == CommitteeByName(committee)
        found == semester # NULL /\ committee_record # NULL
        allocations == IF found
                       THEN PairAllocations(semesters[semester].id, committee_record)
                       ELSE << >>
        transactions == IF found
                        THEN PairTransactions(semesters[semester].id, committee_record)
                        ELSE << >>
        total_spend == sum([k \in DOMAIN transactions |->
                               committee_transactions[transactions[k]].amount_cents])
    IN  [committee |-> committee,
         allocation |-> first(allocations),
         transactions |-> transactions,
         remaining_cents |-> IF found THEN AllocationCents(allocations) + total_spend
                             ELSE 0]

\* GET /portal/committee/<committee>
committee(current_user, name) ==
    /\ current_user \in DOMAIN users
    /\ IF ~can_manage_committee(current_user, lower(name))
       THEN response' = Response("committee", "403", NULL)
       ELSE \E semester \in get_current_semester(semesters) :
               response' = Response("committee", "200", CommitteeView(name, semester))
    /\ UNCHANGED <<users, roles, user_roles, audit_log, now, reqs, legacy_tables>>
    /\ UNCHANGED <<semester_tables, committee_tables, dues_tables>>

\* POST /portal/committee/<committee>/transactions.  form holds the
\* request's amount_cents and direction fields.
create_committee_transaction(current_user, name, form) ==
    /\ current_user \in DOMAIN users
    /\ IF ~can_manage_committee(current_user, lower(name))
       THEN /\ response' = Response("create_committee_transaction", "403", NULL)
            /\ UNCHANGED <<committee_transactions, audit_log, now>>
       ELSE \E semester \in get_current_semester(semesters) :
               IF semester = NULL
               THEN /\ response' = Response("create_committee_transaction", "error", NULL)
                    /\ UNCHANGED <<committee_transactions, audit_log, now>>
               ELSE IF CommitteeByName(name) = NULL
               THEN /\ response' = Response("create_committee_transaction", "404", NULL)
                    /\ UNCHANGED <<committee_transactions, audit_log, now>>
               ELSE IF ~IsInt(form_get(form.amount_cents, "0"))
               THEN /\ response' = Response("create_committee_transaction", "500", NULL)
                    /\ UNCHANGED <<committee_transactions, audit_log, now>>
               ELSE LET amount == abs(int(form_get(form.amount_cents, "0")))
                        direction == form_get(form.direction, "spend")
                        amount_cents == IF direction = "spend" THEN -amount ELSE amount
                        transaction == TransactionRow(semesters[semester].id,
                                                      CommitteeByName(name), amount_cents,
                                                      current_user, now)
                    IN  /\ Len(audit_log) < MaxAudit
                        /\ response' = Response("create_committee_transaction",
                                                "success", NULL)
                        /\ committee_transactions' = Append(committee_transactions,
                                                            transaction)
                        /\ audit_log' = log_action(audit_log, current_user, "TX_CREATED",
                                                   "committee_transaction", NULL,
                                                   [committee |-> name])
                        /\ now' = now + 1
    /\ UNCHANGED <<users, roles, user_roles, reqs, legacy_tables, semester_tables, dues_tables>>
    /\ UNCHANGED <<committees, committee_budget_allocations>>

\* POST /portal/committee/transactions/<transaction_id>/delete
delete_committee_transaction(current_user, transaction_id) ==
    /\ current_user \in DOMAIN users
    /\ IF transaction_id \notin Indices(committee_transactions)
       THEN /\ response' = Response("delete_committee_transaction", "404", NULL)
            /\ UNCHANGED <<committee_transactions, audit_log, now>>
       ELSE LET transaction == committee_transactions[transaction_id]
                committee_record == transaction.committee_id
            IN  IF \/ committee_record \notin Indices(committees)
                   \/ ~can_manage_committee(current_user,
                                            lower(committees[committee_record].name))
                THEN /\ response' = Response("delete_committee_transaction", "403", NULL)
                     /\ UNCHANGED <<committee_transactions, audit_log, now>>
                ELSE IF /\ ~has_any_role(current_user, {ROLE_TREASURER,
                                                        ROLE_VICE_PRESIDENT,
                                                        ROLE_PRESIDENT})
                        /\ transaction.created_by_user_id # current_user
                THEN /\ response' = Response("delete_committee_transaction", "403", NULL)
                     /\ UNCHANGED <<committee_transactions, audit_log, now>>
                ELSE /\ Len(audit_log) < MaxAudit
                     /\ response' = Response("delete_committee_transaction",
                                             "success", NULL)
                     /\ committee_transactions' =
                           [committee_transactions EXCEPT
                               ![transaction_id].is_deleted = TRUE,
                               ![transaction_id].deleted_by_user_id = current_user,
                               ![transaction_id].deleted_at = now]
                     /\ audit_log' = log_action(audit_log, current_user, "TX_DELETED",
                                                "committee_transaction", transaction_id,
                                                NULL)
                     /\ now' = now + 1
    /\ UNCHANGED <<users, roles, user_roles, reqs, legacy_tables, semester_tables, dues_tables>>
    /\ UNCHANGED <<committees, committee_budget_allocations>>

\* POST /portal/treasurer/allocations.  form holds the request's committee
\* and allocated_cents fields.
create_allocation(current_user, form) ==
    /\ current_user \in DOMAIN users
    /\ IF ~has_any_role(current_user, {ROLE_TREASURER, ROLE_VICE_PRESIDENT, ROLE_PRESIDENT})
       THEN /\ response' = Response("create_allocation", "403", NULL)
            /\ UNCHANGED <<committee_budget_allocations, audit_log, now>>
       ELSE \E semester \in get_current_semester(semesters) :
               IF semester = NULL \/ CommitteeByName(form.committee) = NULL
               THEN /\ response' = Response("create_allocation", "error", NULL)
                    /\ UNCHANGED <<committee_budget_allocations, audit_log, now>>
               ELSE IF ~IsInt(form_get(form.allocated_cents, "0"))
               THEN /\ response' = Response("create_allocation", "500", NULL)
                    /\ UNCHANGED <<committee_budget_allocations, audit_log, now>>
               ELSE LET allocation ==
                            AllocationRow(semesters[semester].id,
                                          CommitteeByName(form.committee),
                                          int(form_get(form.allocated_cents, "0")),
                                          current_user, now)
                    IN  /\ Len(audit_log) < MaxAudit
                        /\ response' = Response("create_allocation", "success", NULL)
                        /\ committee_budget_allocations' =
                              Append(committee_budget_allocations, allocation)
                        /\ audit_log' = log_action(audit_log, current_user, "TX_CREATED",
                                                   "committee_allocation", NULL,
                                                   [committee |-> form.committee])
                        /\ now' = now + 1
    /\ UNCHANGED <<users, roles, user_roles, reqs, legacy_tables, semester_tables, dues_tables>>
    /\ UNCHANGED <<committees, committee_transactions>>

\* The committee names and forms of the requests.
CommitteeInputs == {"Social", "social", "Brotherhood"}

TransactionForms ==
    {[amount_cents |-> "500", direction |-> None],
     [amount_cents |-> "-500", direction |-> "credit"]}

AllocationForms ==
    {[committee |-> "Social", allocated_cents |-> "2000"],
     [committee |-> "Social", allocated_cents |-> "1000"],
     [committee |-> "Brotherhood", allocated_cents |-> "1000"],
     [committee |-> "social", allocated_cents |-> "1000"]}

\* What the store holds when the chairs start: the Social committee's rows
\* of the past semester and the Brotherhood committee's of the current one;
\* or no current semester and no committee rows.
CommitteeSeeds ==
    {[semesters |-> PastAndCurrent,
      allocations |-> <<AllocationRow(SemesterId("Spring", 2024), 2, 1000, 2, 1),
                        AllocationRow(SemesterId("Fall", 2024), 1, 1000, 2, 1)>>,
      transactions |-> <<TransactionRow(SemesterId("Spring", 2024), 2, -500, 3, 1),
                         TransactionRow(SemesterId("Fall", 2024), 1, -500, 2, 1)>>],
     [semesters |-> SubSeq(PastAndCurrent, 1, 1),
      allocations |-> << >>, transactions |-> << >>]}

InitCommittee ==
    /\ InitPortal
    /\ users = PortalUsers
    /\ \E seed \in CommitteeSeeds :
          /\ semesters = seed.semesters
          /\ committee_budget_allocations = seed.allocations
          /\ committee_transactions = seed.transactions
    /\ events = << >>
    /\ dues_charges = << >>
    /\ dues_payments = << >>
    /\ dues_payment_allocations = << >>

NextCommittee ==
    \/ \E u \in DOMAIN users, c \in CommitteeInputs : committee(u, c)
    \/ \E u \in DOMAIN users, c \in CommitteeInputs, f \in TransactionForms :
          create_committee_transaction(u, c, f)
    \/ \E u \in DOMAIN users, t \in 1..(Len(committee_transactions) + 1) :
          delete_committee_transaction(u, t)
    \/ \E u \in DOMAIN users, f \in AllocationForms : create_allocation(u, f)

SpecCommittee == InitCommittee /\ [][NextCommittee]_vars

----------------------------------------------------------------------------
(* Claims about committee budgets *)

\* The keys of a pair's allocations and of its non-deleted transactions.
AllocationsOf(semester_id, committee_id) ==
    {i \in Indices(committee_budget_allocations) :
        /\ committee_budget_allocations[i].semester_id = semester_id
        /\ committee_budget_allocations[i].committee_id = committee_id}

LiveTransactionsOf(semester_id, committee_id) ==
    {i \in Indices(committee_transactions) :
        /\ committee_transactions[i].semester_id = semester_id
        /\ committee_transactions[i].committee_id = committee_id
        /\ ~committee_transactions[i].is_deleted}

RECURSIVE SumTransactionCents(_)
SumTransactionCents(ids) ==
    IF ids = {} THEN 0
    ELSE LET i == CHOOSE x \in ids : TRUE
         IN  committee_transactions[i].amount_cents + SumTransactionCents(ids \ {i})

\* The allocated_cents of the pair's allocation with the greatest
\* allocated_at, 0 without allocation, plus the pair's non-deleted amounts.
RemainingBalance(semester_id, committee_id) ==
    LET allocations == AllocationsOf(semester_id, committee_id)
        budget == IF allocations = {} THEN 0
                  ELSE LET latest == CHOOSE a \in allocations :
                               \A b \in allocations \ {a} :
                                   committee_budget_allocations[b].allocated_at
                                       < committee_budget_allocations[a].allocated_at
                       IN  committee_budget_allocations[latest].allocated_cents
    IN  budget + SumTransactionCents(LiveTransactionsOf(semester_id, committee_id))

\* C9: for every committee and the current semester the remaining balance
\* equals the allocated_cents of the single allocation row with the greatest
\* allocated_at for that (semester, committee) pair (0 if there is none;
\* older rows are not summed) plus the sum of amount_cents over the pair's
\* transactions with is_deleted = false; an allocation of 2000 and one
\* expense of -500 give 1500.
C9_RemainingBalance ==
    /\ \A c \in Indices(committees), semester \in CurrentSemesters(semesters) :
          /\ AllocationsOf(semesters[semester].id, c) # {} =>
                \E a \in AllocationsOf(semesters[semester].id, c) :
                    \A b \in AllocationsOf(semesters[semester].id, c) \ {a} :
                        committee_budget_allocations[b].allocated_at
                            < committee_budget_allocations[a].allocated_at
          /\ CommitteeView(committees[c].name, semester).remaining_cents
                = RemainingBalance(semesters[semester].id, c)
    /\ (response.endpoint = "committee" /\ response.outcome = "200") =>
          \A semester \in CurrentSemesters(semesters) :
              LET c == CommitteeByName(response.value.committee)
              IN  c # NULL =>
                     /\ response.value.remaining_cents
                           = RemainingBalance(semesters[semester].id, c)
                     /\ (/\ Cardinality(AllocationsOf(semesters[semester].id, c)) = 1
                         /\ \E a \in AllocationsOf(semesters[semester].id, c) :
                               committee_budget_allocations[a].allocated_cents = 2000
                         /\ Cardinality(LiveTransactionsOf(semesters[semester].id, c)) = 1
                         /\ \E t \in LiveTransactionsOf(semesters[semester].id, c) :
                               committee_transactions[t].amount_cents = -500)
                        => response.value.remaining_cents = 1500

\* The Social page shows 1500: an older allocation of 1000, a later one of
\* 2000 and one expense of -500 in the current semester.
C9_Witness ==
    /\ response.endpoint = "committee" /\ response.outcome = "200"
    /\ response.value.committee = "Social"
    /\ response.value.remaining_cents = 1500
    /\ \E semester \in CurrentSemesters(semesters) :
          /\ \E a, b \in AllocationsOf(semesters[semester].id, 2) :
                /\ committee_budget_allocations[a].allocated_cents = 1000
                /\ committee_budget_allocations[b].allocated_cents = 2000
                /\ committee_budget_allocations[a].allocated_at
                      < committee_budget_allocations[b].allocated_at
          /\ Cardinality(LiveTransactionsOf(semesters[semester].id, 2)) = 1

----------------------------------------------------------------------------
(* rbac.py: permissions *)

CHAIR_ROLES == {ROLE_CHAIR_BROTHERHOOD, ROLE_CHAIR_SOCIAL, ROLE_CHAIR_RECRUITMENT}

CHAIR_PERMISSION_NAMES ==
    {"create_events", "edit_own_events", "view_own_events",
     "create_spending_plans", "edit_own_spending_plans",
     "view_own_spending_plans", "manage_committee_budget",
     "manage_committee_events"}

EXECUTIVE_PERMISSION_NAMES ==
    {"manage_master_budget", "manage_committee_allocations", "manage_dues",
     "manage_roles", "manage_semesters", "manage_events"}

\* has_permission without its first test, the executive roles' shortcut.
has_permission_NoExecutiveShortcut(user_id, permission_name) ==
    IF permission_name \in CHAIR_PERMISSION_NAMES
    THEN has_any_role(user_id, CHAIR_ROLES)
    ELSE IF permission_name \in EXECUTIVE_PERMISSION_NAMES
    THEN has_any_role(user_id, {ROLE_VICE_PRESIDENT, ROLE_PRESIDENT,
                                ROLE_TREASURER, ROLE_ADMIN})
    ELSE FALSE

\* has_permission that lets a chair pass for every known permission.
has_permission_ChairPassesAll(user_id, permission_name) ==
    IF has_any_role(user_id, EXECUTIVE_ROLES) THEN TRUE
    ELSE IF permission_name \in CHAIR_PERMISSION_NAMES \cup EXECUTIVE_PERMISSION_NAMES
    THEN has_any_role(user_id, CHAIR_ROLES)
    ELSE FALSE

has_permission(user_id, permission_name) ==
    IF has_any_role(user_id, EXECUTIVE_ROLES) THEN TRUE
    ELSE IF permission_name \in CHAIR_PERMISSION_NAMES
    THEN has_any_role(user_id, CHAIR_ROLES)
    ELSE IF permission_name \in EXECUTIVE_PERMISSION_NAMES
    THEN has_any_role(user_id, {ROLE_VICE_PRESIDENT, ROLE_PRESIDENT,
                                ROLE_TREASURER, ROLE_ADMIN})
    ELSE FALSE

\* A view wrapped in permission_required(*permission_names), called by
\* current_user (NULL: nobody is logged in).
permission_required(current_user, permission_names) ==
    /\ response' = Response("permission_required",
                            IF \E name \in permission_names :
                                  has_permission(current_user, name)
                            THEN "200" ELSE "403",
                            [user |-> current_user, permission_names |-> permission_names])
    /\ UNCHANGED <<users, roles, user_roles, audit_log, now, reqs, legacy_tables>>
    /\ UNCHANGED <<semester_tables, committee_tables, dues_tables>>

\* Permission names a caller asks for; one of them is in neither list.
PermissionInputs ==
    CHAIR_PERMISSION_NAMES \cup EXECUTIVE_PERMISSION_NAMES \cup {"no_such_permission"}

\* The user whose roles the permission checks follow.
PermissionSubject == 3

\* The role store, the roles of one account granted and revoked by the
\* admin, and permission checks for nobody, the admin and that account.
NextPermission ==
    \/ \E r \in DEFAULT_ROLES : grant_role(PermissionSubject, r, 1)
    \/ \E r \in DEFAULT_ROLES : revoke_role(PermissionSubject, r, 1)
    \/ \E u \in {NULL, 1, PermissionSubject}, p \in PermissionInputs :
          permission_required(u, {p})

SpecPermission == Init /\ [][NextPermission]_vars

----------------------------------------------------------------------------
(* Claims about permissions *)

\* C11: for every authenticated user holding at least one active
\* executive-tier role (treasurer, vice_president, president, admin),
\* has_permission(user, capability) is true for every capability name.
C11_ExecutiveHasAll ==
    /\ [](\A u \in DOMAIN users :
            has_any_role(u, EXECUTIVE_ROLES) =>
                \A p \in PermissionInputs : has_permission(u, p))
    /\ [][(/\ response' # response
            /\ response'.endpoint = "permission_required"
            /\ has_any_role(response'.value.user, EXECUTIVE_ROLES))
           => response'.outcome = "200"]_vars

\* A check of a chair-level permission passed for an account whose only
\* active role is treasurer, granted through grant_role.
C11_Witness ==
    /\ response.endpoint = "permission_required"
    /\ response.outcome = "200"
    /\ response.value.user = PermissionSubject
    /\ response.value.permission_names = {"manage_committee_budget"}
    /\ get_active_roles(PermissionSubject) = {ROLE_TREASURER}
    /\ Logged("ROLE_GRANTED", PermissionSubject, ROLE_TREASURER)

\* C12: for a user with no active executive-tier role has_permission is
\* true only if the user holds an active chair role and the capability is
\* one of the chair-level capabilities; a user holding chair_social has
\* manage_committee_budget and not manage_master_budget; a user with only
\* the brother role, with no role, or not logged in is denied everything.
C12_DenyByDefault ==
    /\ [](\A u \in DOMAIN users \cup {NULL}, p \in PermissionInputs :
            ~has_any_role(u, EXECUTIVE_ROLES) =>
                /\ has_permission(u, p) =>
                      /\ has_any_role(u, CHAIR_ROLES)
                      /\ p \in CHAIR_PERMISSION_NAMES
                /\ has_role(u, ROLE_CHAIR_SOCIAL) =>
                      /\ has_permission(u, "manage_committee_budget")
                      /\ ~has_permission(u, "manage_master_budget")
                /\ (u = NULL \/ get_active_roles(u) \subseteq {ROLE_BROTHER}) =>
                      ~has_permission(u, p))
    /\ [][(/\ response' # response
            /\ response'.endpoint = "permission_required"
            /\ response'.outcome = "200"
            /\ ~has_any_role(response'.value.user, EXECUTIVE_ROLES))
           => /\ has_any_role(response'.value.user, CHAIR_ROLES)
              /\ response'.value.permission_names \subseteq CHAIR_PERMISSION_NAMES]_vars

\* chair_social was granted to an account that holds no executive role, and
\* its check of manage_master_budget was turned down.
C12_Witness ==
    /\ response = Response("permission_required", "403",
                           [user |-> PermissionSubject,
                            permission_names |-> {"manage_master_budget"}])
    /\ ROLE_CHAIR_SOCIAL \in get_active_roles(PermissionSubject)
    /\ Logged("ROLE_GRANTED", PermissionSubject, ROLE_CHAIR_SOCIAL)
    /\ has_permission(PermissionSubject, "manage_committee_budget")

----------------------------------------------------------------------------
(* portal.py: the role administration handlers *)

\* POST /portal/admin/users/<user_id>/roles.  role_name is the form's
\* role_name field.
add_role(current_user, user_id, role_name) ==
    /\ current_user \in DOMAIN users
    /\ IF ~has_any_role(current_user, {ROLE_VICE_PRESIDENT, ROLE_PRESIDENT})
       THEN /\ response' = Response("add_role", "403", NULL)
            /\ UNCHANGED <<user_roles, audit_log, now>>
       ELSE IF user_id \notin DOMAIN users
       THEN /\ response' = Response("add_role", "404", NULL)
            /\ UNCHANGED <<user_roles, audit_log, now>>
       ELSE IF role_name \in {None, ""}
       THEN /\ response' = Response("add_role", "error", "Role name is required.")
            /\ UNCHANGED <<user_roles, audit_log, now>>
       ELSE LET res == GrantResult(user_roles, audit_log, user_id, role_name,
                                   current_user)
            IN  /\ res.outcome = "True" => Len(audit_log) < MaxAudit
                /\ user_roles' = res.table
                /\ audit_log' = res.log
                /\ now' = IF res.outcome = "True" THEN now + 1 ELSE now
                /\ response' =
                      CASE res.outcome = "True" ->
                              Response("add_role", "success", "Role granted.")
                        [] res.outcome = "False" ->
                              Response("add_role", "error",
                                       "Role already assigned or invalid.")
                        [] OTHER -> Response("add_role", "500", NULL)
    /\ UNCHANGED <<users, roles, reqs, legacy_tables>>
    /\ UNCHANGED <<semester_tables, committee_tables, dues_tables>>

\* POST /portal/admin/users/<user_id>/roles/<role_name>
remove_role(current_user, user_id, role_name) ==
    /\ current_user \in DOMAIN users
    /\ IF ~has_any_role(current_user, {ROLE_VICE_PRESIDENT, ROLE_PRESIDENT})
       THEN /\ response' = Response("remove_role", "403", NULL)
            /\ UNCHANGED <<user_roles, audit_log, now>>
       ELSE IF user_id \notin DOMAIN users
       THEN /\ response' = Response("remove_role", "404", NULL)
            /\ UNCHANGED <<user_roles, audit_log, now>>
       ELSE LET res == RevokeResult(user_roles, audit_log, user_id, role_name,
                                    current_user)
            IN  /\ res.outcome = "True" => Len(audit_log) < MaxAudit
                /\ user_roles' = res.table
                /\ audit_log' = res.log
                /\ now' = IF res.outcome = "True" THEN now + 1 ELSE now
                /\ response' =
                      CASE res.outcome = "True" ->
                              Response("remove_role", "success", "Role revoked.")
                        [] res.outcome = "False" ->
                              Response("remove_role", "error", "Role not active.")
                        [] OTHER -> Response("remove_role", "500", NULL)
    /\ UNCHANGED <<users, roles, reqs, legacy_tables>>
    /\ UNCHANGED <<semester_tables, committee_tables, dues_tables>>

\* The grants the administration starts from: the admin's row written by
\* init_database and the first president's row.
AdminUserRoles ==
    <<UserRoleRow(1, ROLE_ADMIN, NULL, 1),
      UserRoleRow(2, ROLE_PRESIDENT, 1, 1)>>

\* Targets (one id is no user's) and role names of the requests.
TargetInputs == {3, 4}

RoleFieldInputs == {ROLE_BROTHER, ROLE_PRESIDENT, "no_such_role", None}

InitAdmin ==
    /\ users = PortalUsers
    /\ roles = DEFAULT_ROLES
    /\ user_roles = AdminUserRoles
    /\ audit_log = << >>
    /\ now = 2
    /\ response = NoResponse
    /\ reqs = << >>
    /\ db_transactions = << >>
    /\ db_payments = << >>
    /\ InitPortalTables

\* The portal's two handlers, and grant_role / revoke_role called with the
\* actor argument omitted.
NextAdmin ==
    \/ \E c \in DOMAIN users, u \in TargetInputs, r \in RoleFieldInputs :
          add_role(c, u, r)
    \/ \E c \in DOMAIN users, u \in TargetInputs, r \in RoleFieldInputs \ {None} :
          remove_role(c, u, r)
    \/ \E u \in TargetInputs, r \in RoleNameInputs : grant_role(u, r, NULL)
    \/ \E u \in TargetInputs, r \in RoleNameInputs : revoke_role(u, r, NULL)

SpecAdmin == InitAdmin /\ [][NextAdmin]_vars

----------------------------------------------------------------------------
(* Claims about grant_role and revoke_role as the portal calls them *)

\* C13: grant_role(U, R, actor) returns False without raising, and leaves
\* the assignment table and the audit log unchanged, when R is not the name
\* of an existing role or when U already holds a non-revoked assignment
\* for R.
C13_GrantFailsSilently ==
    /\ [](\A u \in DOMAIN users, r \in RoleFieldInputs \cup RoleNameInputs,
             a \in DOMAIN users \cup {NULL} :
            (r \notin roles \/ ActiveAssignments(user_roles, u, r) # {}) =>
                LET res == GrantResult(user_roles, audit_log, u, r, a)
                IN  /\ res.outcome = "False"
                    /\ res.table = user_roles
                    /\ res.log = audit_log)
    /\ [][(/\ response' # response
           /\ response'.endpoint = "add_role"
           /\ response'.outcome = "error")
          => UNCHANGED <<user_roles, audit_log>>]_vars
    /\ [][\A u \in TargetInputs, r \in RoleNameInputs :
            (/\ r \notin roles \/ ActiveAssignments(user_roles, u, r) # {}
             /\ grant_role(u, r, NULL))
            => UNCHANGED <<user_roles, audit_log>>]_vars

\* The president asked for a role the target holds since an earlier grant
\* and was told it is already assigned or invalid.
C13_Witness ==
    /\ response.endpoint = "add_role"
    /\ response.outcome = "error"
    /\ response.value = "Role already assigned or invalid."
    /\ \E u \in DOMAIN users, r \in roles :
          /\ Logged("ROLE_GRANTED", u, r)
          /\ ActiveAssignments(user_roles, u, r) # {}
          /\ \E i \in Indices(user_roles) :
                /\ user_roles[i].user_id = u /\ user_roles[i].role_id = r
                /\ user_roles[i].revoked_at # NULL

\* The audit entries of one kind about a (user, role) pair.
AuditEntriesOf(action, user_id, role_name) ==
    {i \in Indices(audit_log) :
        /\ audit_log[i].action = action
        /\ audit_log[i].target_type = "user"
        /\ audit_log[i].target_id = user_id
        /\ audit_log[i].details = [role |-> role_name]}

\* The pair's rows inserted since the administration started, and its
\* revoked rows.
InsertedRows(user_id, role_name) ==
    {i \in Indices(user_roles) :
        /\ i > Len(AdminUserRoles)
        /\ user_roles[i].user_id = user_id
        /\ user_roles[i].role_id = role_name}

RevokedRows(user_id, role_name) ==
    {i \in Indices(user_roles) :
        /\ user_roles[i].user_id = user_id
        /\ user_roles[i].role_id = role_name
        /\ user_roles[i].revoked_at # NULL}

\* C14: in every state reachable through grant_role and revoke_role, with
\* any actor argument or none, for each (user, role) the number of
\* ROLE_GRANTED audit entries equals the number of assignment rows inserted
\* for the pair and the number of ROLE_REVOKED entries equals the number of
\* its rows with a non-null revoked_at.
C14_AuditMatchesRoles ==
    \A u \in DOMAIN users, r \in roles :
        /\ Cardinality(AuditEntriesOf("ROLE_GRANTED", u, r))
              = Cardinality(InsertedRows(u, r))
        /\ Cardinality(AuditEntriesOf("ROLE_REVOKED", u, r))
              = Cardinality(RevokedRows(u, r))

\* C15: no operation of the application (revoke_role, grant_role, the
\* legacy assign_role, brother approval) ever removes a role-assignment row
\* or resets a non-null revoked_at: every step keeps each row, and a row
\* changes only by receiving its revoked_at.
C15_HistoryPreserved ==
    [][/\ Len(user_roles') >= Len(user_roles)
       /\ \A i \in Indices(user_roles) :
             \/ user_roles'[i] = user_roles[i]
             \/ /\ user_roles[i].revoked_at = NULL
                /\ user_roles'[i] # user_roles[i]
                /\ [user_roles'[i] EXCEPT !.revoked_at = NULL] = user_roles[i]]_vars

----------------------------------------------------------------------------
(* app.py: the legacy routes that write the semesters table.  Both run     *)
(* behind require_permission('manage_users'), a check of the session's     *)
(* role; permitted is its result.  TreasurerConfig and the archived and    *)
(* end_date columns are not modelled.                                      *)

\* POST /handover_treasurer.  The handler stores datetime.now().isoformat(),
\* a string, in the DateTime column end_date: PostgreSQL (production) takes
\* it and the commit clears is_current; SQLite (development) refuses it at
\* the flush and the handler rolls back.
handover_treasurer(permitted) ==
    /\ IF ~permitted
       THEN /\ response' = Response("handover_treasurer", "denied", NULL)
            /\ UNCHANGED semesters
       ELSE \E current_sem \in get_current_semester(semesters) :
               IF current_sem = NULL
               THEN /\ response' = Response("handover_treasurer", "success", NULL)
                    /\ UNCHANGED semesters
               ELSE \/ /\ response' = Response("handover_treasurer", "success", NULL)
                       /\ semesters' = [semesters EXCEPT ![current_sem].is_current = FALSE]
                    \/ /\ response' = Response("handover_treasurer", "error", NULL)
                       /\ UNCHANGED semesters
    /\ UNCHANGED <<users, roles, user_roles, audit_log, now, reqs, legacy_tables, events>>
    /\ UNCHANGED <<committee_tables, dues_tables>>

\* POST /semester_management.  The new Semester carries start_date as an
\* isoformat() string and end_date "": SQLite refuses the first, PostgreSQL
\* the second, so the flush raises on either store and the handler's except
\* branch rolls back, the cleared is_current included.
semester_management(permitted) ==
    /\ response' = IF ~permitted
                   THEN Response("semester_management", "denied", NULL)
                   ELSE Response("semester_management", "error", NULL)
    /\ UNCHANGED <<users, roles, user_roles, audit_log, now, reqs, legacy_tables>>
    /\ UNCHANGED <<semester_tables, committee_tables, dues_tables>>

----------------------------------------------------------------------------
(* The application's write operations side by side *)

\* Who holds what when the requests start: a president and a Social chair;
\* a treasurer and a brother whose Social chair was revoked; a vice
\* president and a Brotherhood chair.  The admin account is in each.
RoleCasts ==
    {PortalUserRoles,
     <<UserRoleRow(1, ROLE_ADMIN, NULL, 1),
       UserRoleRow(2, ROLE_TREASURER, 1, 1),
       UserRoleRow(3, ROLE_BROTHER, NULL, 1),
       [UserRoleRow(3, ROLE_CHAIR_SOCIAL, 1, 1) EXCEPT !.revoked_at = 1]>>,
     <<UserRoleRow(1, ROLE_ADMIN, NULL, 1),
       UserRoleRow(2, ROLE_VICE_PRESIDENT, 1, 1),
       UserRoleRow(3, ROLE_BROTHER, NULL, 1),
       UserRoleRow(3, ROLE_CHAIR_BROTHERHOOD, 1, 1)>>}

\* The current semester's rows: a Social event of user 3 and an event of
\* user 2 without committee; a Social expense entered by user 3, and the
\* audit entry written with it.
PortalEvents ==
    <<EventRow(SemesterId("Fall", 2024), 2, 3, FALSE, FALSE),
      EventRow(SemesterId("Fall", 2024), NULL, 2, FALSE, FALSE)>>

PortalTransactions ==
    <<TransactionRow(SemesterId("Fall", 2024), 2, -500, 3, 1)>>

PortalAuditLog ==
    <<[actor_user_id |-> 3, action |-> "TX_CREATED",
       target_type |-> "committee_transaction", target_id |-> NULL,
       details |-> [committee |-> "Social"], created_at |-> 1]>>

InitPortalWrites ==
    /\ users = PortalUsers
    /\ roles = DEFAULT_ROLES
    /\ user_roles \in RoleCasts
    /\ audit_log = PortalAuditLog
    /\ now = 2
    /\ response = NoResponse
    /\ reqs = << >>
    /\ db_transactions = << >>
    /\ db_payments = << >>
    /\ semesters = PastAndCurrent
    /\ events = PortalEvents
    /\ committees = EnsureCommittees(<< >>, COMMITTEE_NAMES)
    /\ committee_budget_allocations = << >>
    /\ committee_transactions = PortalTransactions
    /\ dues_charges = << >>
    /\ dues_payments = << >>
    /\ dues_payment_allocations = << >>

\* One request form per handler.
PortalTransactionForm == [amount_cents |-> "500", direction |-> None]
PortalAllocationForm == [committee |-> "Social", allocated_cents |-> "2000"]
PortalBatchForm == [charge_cents |-> "50000", reason |-> None]
PortalPaymentForm == [user_id |-> "3", amount_cents |-> "2500", method |-> "cash"]
PortalRolloverForms ==
    {RolloverForm("ROLL_OVER", "Spring", "2025"), RolloverForm("WRONG", "Spring", "2025")}

NextPortalWrites ==
    \/ \E u \in DOMAIN users, c \in {"Social", "Brotherhood"} :
          create_committee_transaction(u, c, PortalTransactionForm)
    \/ \E u \in DOMAIN users, t \in 1..(Len(committee_transactions) + 1) :
          delete_committee_transaction(u, t)
    \/ \E u \in DOMAIN users : create_allocation(u, PortalAllocationForm)
    \/ \E u \in DOMAIN users : create_dues_batch(u, PortalBatchForm)
    \/ \E u \in DOMAIN users : record_dues_payment(u, PortalPaymentForm)
    \/ \E u \in DOMAIN users : add_role(u, 3, ROLE_TREASURER)
    \/ \E u \in DOMAIN users, r \in {ROLE_TREASURER, ROLE_CHAIR_SOCIAL} :
          remove_role(u, 3, r)
    \/ \E u \in DOMAIN users, f \in PortalRolloverForms : semester_rollover(u, f)
    \/ \E u \in DOMAIN users, e \in 1..(Len(events) + 1) : delete_event(u, e)
    \/ \E p \in BOOLEAN : handover_treasurer(p)
    \/ \E p \in BOOLEAN : semester_management(p)

SpecPortalWrites == InitPortalWrites /\ [][NextPortalWrites]_vars

----------------------------------------------------------------------------
(* Claims about who may write *)

\* The user has a non-revoked assignment row for one of the roles.
HoldsActive(user_id, role_names) ==
    \E i \in Indices(user_roles) :
        /\ user_roles[i].user_id = user_id
        /\ user_roles[i].role_id \in role_names
        /\ user_roles[i].revoked_at = NULL

\* The chair role mapped to the committee with this key.
ChairRoleOf(committee_id) ==
    CASE committees[committee_id].name = "Brotherhood" -> ROLE_CHAIR_BROTHERHOOD
      [] committees[committee_id].name = "Social" -> ROLE_CHAIR_SOCIAL
      [] committees[committee_id].name = "Recruitment" -> ROLE_CHAIR_RECRUITMENT

\* The user holds the committee's chair role or an executive-tier role.
MayManage(user_id, committee_id) ==
    \/ HoldsActive(user_id, EXECUTIVE_ROLES)
    \/ HoldsActive(user_id, {ChairRoleOf(committee_id)})

TreasuryRoles == {ROLE_TREASURER, ROLE_VICE_PRESIDENT, ROLE_PRESIDENT}

\* A forbidden outcome that left every table and the audit log as they were.
Forbidden ==
    /\ response'.outcome = "403"
    /\ UNCHANGED <<users, user_roles, audit_log>>
    /\ UNCHANGED <<semester_tables, committee_tables, dues_tables>>

\* Each write operation, called by a user who fails its role check, is
\* forbidden.
CheckFailsThenForbidden ==
    /\ \A c \in Indices(committees) :
          \A u \in {x \in DOMAIN users : ~MayManage(x, c)} :
              create_committee_transaction(u, committees[c].name,
                                           PortalTransactionForm) => Forbidden
    /\ \A t \in Indices(committee_transactions) :
          \A u \in {x \in DOMAIN users :
                       \/ ~MayManage(x, committee_transactions[t].committee_id)
                       \/ /\ ~HoldsActive(x, TreasuryRoles)
                          /\ committee_transactions[t].created_by_user_id # x} :
              delete_committee_transaction(u, t) => Forbidden
    /\ \A u \in {x \in DOMAIN users : ~HoldsActive(x, TreasuryRoles)} :
          /\ create_allocation(u, PortalAllocationForm) => Forbidden
          /\ create_dues_batch(u, PortalBatchForm) => Forbidden
          /\ record_dues_payment(u, PortalPaymentForm) => Forbidden
    /\ \A u \in {x \in DOMAIN users :
                    ~HoldsActive(x, {ROLE_VICE_PRESIDENT, ROLE_PRESIDENT})} :
          /\ add_role(u, 3, ROLE_TREASURER) => Forbidden
          /\ \A r \in {ROLE_TREASURER, ROLE_CHAIR_SOCIAL} :
                remove_role(u, 3, r) => Forbidden
          /\ \A f \in PortalRolloverForms : semester_rollover(u, f) => Forbidden
    /\ \A e \in Indices(events) :
          \A u \in {x \in DOMAIN users :
                       /\ ~HoldsActive(x, EXECUTIVE_ROLES)
                       /\ events[e].created_by_user_id # x
                       /\ events[e].created_by # x
                       /\ \/ events[e].committee_id = NULL
                          \/ ~MayManage(x, events[e].committee_id)} :
              delete_event(u, e) => Forbidden

\* C16: for every write operation of the portal (create/delete committee
\* transaction, create allocation, batch dues charge, record dues payment,
\* add/remove role, semester rollover, delete event), when the acting user
\* fails the operation's role check the operation ends with 403, no table
\* row is created or changed and no audit entry is appended.
C16_ForbiddenWritesNothing == [][Forbidden \/ CheckFailsThenForbidden]_vars

\* The president made user 3 treasurer; user 3, who may not administer
\* roles, then asked to remove a role and was refused.
C16_Witness ==
    /\ response.endpoint = "remove_role"
    /\ response.outcome = "403"
    /\ HoldsActive(3, {ROLE_TREASURER})
    /\ Logged("ROLE_GRANTED", 3, ROLE_TREASURER)
    /\ ~HoldsActive(1, {ROLE_VICE_PRESIDENT, ROLE_PRESIDENT})

\* C17: a committee transaction of committee C is created, or soft-deleted,
\* only by a user who at that moment holds the chair role mapped to C or an
\* executive-tier role; the chair of another committee and a plain brother
\* can do neither.
C17_CommitteeWritersOnly ==
    [][/\ Len(committee_transactions') >= Len(committee_transactions)
       /\ \A t \in Indices(committee_transactions') :
             IF t \notin Indices(committee_transactions)
             THEN MayManage(committee_transactions'[t].created_by_user_id,
                            committee_transactions'[t].committee_id)
             ELSE committee_transactions'[t] # committee_transactions[t]
                  => /\ committee_transactions'[t].is_deleted
                     /\ MayManage(committee_transactions'[t].deleted_by_user_id,
                                  committee_transactions[t].committee_id)]_vars

\* The Brotherhood chair entered a Brotherhood transaction, the vice
\* president deleted the Social one, and the Brotherhood chair was refused
\* on a Social transaction.
C17_Witness ==
    /\ response.endpoint \in {"create_committee_transaction",
                              "delete_committee_transaction"}
    /\ response.outcome = "403"
    /\ Len(committee_transactions) = 2
    /\ committee_transactions[2].created_by_user_id = 3
    /\ committee_transactions[2].committee_id = 1
    /\ HoldsActive(3, {ROLE_CHAIR_BROTHERHOOD})
    /\ ~HoldsActive(3, {ROLE_CHAIR_SOCIAL} \cup EXECUTIVE_ROLES)
    /\ committee_transactions[1].is_deleted
    /\ committee_transactions[1].deleted_by_user_id = 2
    /\ committee_transactions[1].committee_id = 2

\* C18: a user who passes the committee-permission check can delete a
\* committee transaction if and only if the user holds an executive-tier
\* role (treasurer, vice_president, president or admin) or is the
\* transaction's original creator; a chair cannot delete a transaction
\* created by someone else.
C18_DeleteIffExecutiveOrCreator ==
    [][\A t \in Indices(committee_transactions) :
          \A u \in {x \in DOMAIN users :
                       MayManage(x, committee_transactions[t].committee_id)} :
              delete_committee_transaction(u, t)
              => (response'.outcome = "success"
                  <=> \/ HoldsActive(u, EXECUTIVE_ROLES)
                      \/ committee_transactions[t].created_by_user_id = u)]_vars

----------------------------------------------------------------------------
(* Claims about the current semester *)

\* Some Semester row's is_current flag differs after the step.
CurrentFlagChanges ==
    \E i \in Indices(semesters) :
        i \in Indices(semesters') => semesters'[i].is_current # semesters[i].is_current

\* C19: semester rollover is the only operation that changes a Semester
\* row's is_current flag; every other operation, the legacy semester
\* management and treasurer handover routes included, leaves every
\* is_current value unchanged.
C19_OnlyRolloverMovesCurrent ==
    [][CurrentFlagChanges
       => \E u \in DOMAIN users, f \in PortalRolloverForms : semester_rollover(u, f)]_vars

\* C20: semester rollover takes effect only for an actor holding an active
\* vice_president or president role; an actor with only treasurer, admin,
\* chair or brother roles is rejected even with the correct token, and the
\* current semester is unchanged.
C20_RolloverOnlyForPresidents ==
    [][/\ \A u \in {x \in DOMAIN users :
                       ~HoldsActive(x, {ROLE_VICE_PRESIDENT, ROLE_PRESIDENT})} :
             \A f \in PortalRolloverForms :
                 semester_rollover(u, f)
                 => /\ response'.outcome = "403"
                    /\ UNCHANGED <<semesters, events, audit_log>>
       /\ Len(semesters') > Len(semesters)
          => /\ Len(audit_log') = Len(audit_log) + 1
             /\ audit_log'[Len(audit_log')].action = "SEMESTER_ROLLOVER"
             /\ HoldsActive(audit_log'[Len(audit_log')].actor_user_id,
                            {ROLE_VICE_PRESIDENT, ROLE_PRESIDENT})]_vars

\* The vice president rolled the semester over; a later rollover request
\* from the admin or the chair, neither a (vice) president, was refused and
\* the new semester is still the current one.
C20_Witness ==
    /\ response.endpoint = "semester_rollover"
    /\ response.outcome = "403"
    /\ \E i \in Indices(audit_log) :
          /\ audit_log[i].action = "SEMESTER_ROLLOVER"
          /\ audit_log[i].actor_user_id = 2
    /\ HoldsActive(2, {ROLE_VICE_PRESIDENT})
    /\ HoldsActive(1, {ROLE_ADMIN})
    /\ ~HoldsActive(3, TreasuryRoles)
    /\ CurrentSemesters(semesters) = {3}

----------------------------------------------------------------------------
(* Claims about what is kept *)

\* C21: the audit log is append-only: across every operation the sequence
\* of audit entries only grows, and no existing entry's actor, action,
\* target or details is ever modified or removed.
C21_AuditAppendOnly ==
    [][/\ Len(audit_log') >= Len(audit_log)
       /\ \A i \in Indices(audit_log) : audit_log'[i] = audit_log[i]]_vars

\* The log holds the seeded entry and two entries written after it by
\* different operations.
C21_Witness ==
    /\ Len(audit_log) = MaxAudit
    /\ audit_log[1] = PortalAuditLog[1]
    /\ audit_log[2].action # audit_log[3].action
    /\ audit_log[2].action # audit_log[1].action
    /\ audit_log[3].actor_user_id # audit_log[1].actor_user_id

----------------------------------------------------------------------------
(* app.py: the legacy ledger routes.  They run behind require_permission,  *)
(* a check of the session's role; permitted is its result.  The tables are *)
(* functions from primary key to row, since rows leave them.               *)

MaxLedgerId == 2     \* primary keys of the legacy tables are 1..MaxLedgerId

\* The members table: the ids of its rows.  No modelled route changes it.
Members == {1, 2}

\* float(request.form['amount']) for the whole amounts the requests carry.
float(text) == IntValues[text]

\* Transaction(...) as add_transaction builds it.
DBTransaction(category, amount, type, semester_id) ==
    [date |-> now, category |-> category, amount |-> amount, type |-> type,
     semester_id |-> semester_id]

\* Payment(...) as record_payment builds it.
Payment(member_id, amount, payment_method) ==
    [member_id |-> member_id, amount |-> amount,
     payment_method |-> payment_method, date |-> now, transaction_id |-> NULL]

\* The keys the store may give a new row: SQLite takes the largest key
\* plus one, PostgreSQL the next value of a sequence, which is beyond every
\* key in the table.
NewKeys(table) == {k \in 1..MaxLedgerId : k > Max(DOMAIN table \cup {0})}

\* The table with one more row.
Inserted(table, key, row) ==
    [k \in DOMAIN table \cup {key} |-> IF k = key THEN row ELSE table[k]]

\* The table after db.session.delete(row) and the commit.
Deleted(table, key) == [k \in DOMAIN table \ {key} |-> table[k]]

\* POST /add_transaction.  date is a datetime.date in a DateTime column:
\* PostgreSQL stores it, SQLite's DateTime type may refuse it at the flush.
\* Without a current semester semester_id is None and the NOT NULL column
\* refuses the row.
add_transaction(permitted, form) ==
    /\ IF ~permitted
       THEN /\ response' = Response("add_transaction", "denied", NULL)
            /\ UNCHANGED db_transactions
       ELSE \E current_semester \in get_current_semester(semesters) :
               IF current_semester = NULL
               THEN /\ response' = Response("add_transaction", "error", NULL)
                    /\ UNCHANGED db_transactions
               ELSE \/ \E key \in NewKeys(db_transactions) :
                          /\ response' = Response("add_transaction", "success", NULL)
                          /\ db_transactions' =
                                Inserted(db_transactions, key,
                                         DBTransaction(form.category, float(form.amount),
                                                       form.type,
                                                       semesters[current_semester].id))
                    \/ /\ response' = Response("add_transaction", "error", NULL)
                       /\ UNCHANGED db_transactions
    /\ UNCHANGED <<users, roles, user_roles, audit_log, now, reqs, db_payments>>
    /\ UNCHANGED <<semester_tables, committee_tables, dues_tables>>

\* POST /remove_transaction/<transaction_id>.  get_or_404 runs inside the
\* try block, so a missing row ends in the except branch.
remove_transaction(permitted, transaction_id) ==
    /\ IF ~permitted
       THEN /\ response' = Response("remove_transaction", "denied", NULL)
            /\ UNCHANGED db_transactions
       ELSE IF transaction_id \notin DOMAIN db_transactions
       THEN /\ response' = Response("remove_transaction", "error", NULL)
            /\ UNCHANGED db_transactions
       ELSE /\ response' = Response("remove_transaction", "success", NULL)
            /\ db_transactions' = Deleted(db_transactions, transaction_id)
    /\ UNCHANGED <<users, roles, user_roles, audit_log, now, reqs, db_payments>>
    /\ UNCHANGED <<semester_tables, committee_tables, dues_tables>>

\* POST /record_payment.  date is a datetime.date as in add_transaction.
record_payment(permitted, form) ==
    /\ IF ~permitted
       THEN /\ response' = Response("record_payment", "denied", NULL)
            /\ UNCHANGED db_payments
       ELSE IF int(form.member_id) \notin Members
       THEN /\ response' = Response("record_payment", "error", NULL)
            /\ UNCHANGED db_payments
       ELSE \/ \E key \in NewKeys(db_payments) :
                  /\ response' = Response("record_payment", "success", NULL)
                  /\ db_payments' =
                        Inserted(db_payments, key,
                                 Payment(int(form.member_id), float(form.amount),
                                         form.payment_method))
            \/ /\ response' = Response("record_payment", "error", NULL)
               /\ UNCHANGED db_payments
    /\ UNCHANGED <<users, roles, user_roles, audit_log, now, reqs, db_transactions>>
    /\ UNCHANGED <<semester_tables, committee_tables, dues_tables>>

\* POST /remove_payment/<payment_id>
remove_payment(permitted, payment_id) ==
    /\ IF ~permitted
       THEN /\ response' = Response("remove_payment", "denied", NULL)
            /\ UNCHANGED db_payments
       ELSE IF payment_id \notin DOMAIN db_payments
       THEN /\ response' = Response("remove_payment", "error", NULL)
            /\ UNCHANGED db_payments
       ELSE /\ response' = Response("remove_payment", "success", NULL)
            /\ db_payments' = Deleted(db_payments, payment_id)
    /\ UNCHANGED <<users, roles, user_roles, audit_log, now, reqs, db_transactions>>
    /\ UNCHANGED <<semester_tables, committee_tables, dues_tables>>

\* The ledger routes next to the portal's delete of a committee
\* transaction, from the seeded portal tables and empty legacy tables.
InitLedger ==
    /\ users = PortalUsers
    /\ roles = DEFAULT_ROLES
    /\ user_roles = PortalUserRoles
    /\ audit_log = PortalAuditLog
    /\ now = 2
    /\ response = NoResponse
    /\ reqs = << >>
    /\ db_transactions = << >>
    /\ db_payments = << >>
    /\ semesters = PastAndCurrent
    /\ events = << >>
    /\ committees = EnsureCommittees(<< >>, COMMITTEE_NAMES)
    /\ committee_budget_allocations = << >>
    /\ committee_transactions = PortalTransactions
    /\ dues_charges = << >>
    /\ dues_payments = << >>
    /\ dues_payment_allocations = << >>

NextLedger ==
    \/ \E p \in BOOLEAN, t \in {"expense", "income"} :
          add_transaction(p, [category |-> "Social", amount |-> "500", type |-> t])
    \/ \E p \in BOOLEAN, t \in 1..MaxLedgerId : remove_transaction(p, t)
    \/ \E p \in BOOLEAN, m \in {"1", "3"} :
          record_payment(p, [member_id |-> m, amount |-> "2500",
                             payment_method |-> "Cash"])
    \/ \E p \in BOOLEAN, t \in 1..MaxLedgerId : remove_payment(p, t)
    \/ \E u \in DOMAIN users, t \in Indices(committee_transactions) :
          delete_committee_transaction(u, t)

SpecLedger == InitLedger /\ [][NextLedger]_vars

----------------------------------------------------------------------------
(* Claims about financial records *)

\* C22: financial records are never hard-deleted: no operation removes a
\* payment, transaction, charge or committee transaction from its table;
\* removal is always expressed by a soft-delete flag, the row staying in
\* place.
C22_NoHardDelete ==
    [][/\ DOMAIN db_transactions \subseteq DOMAIN db_transactions'
       /\ DOMAIN db_payments \subseteq DOMAIN db_payments'
       /\ Len(committee_transactions') >= Len(committee_transactions)
       /\ Len(dues_charges') >= Len(dues_charges)
       /\ Len(dues_payments') >= Len(dues_payments)]_vars

----------------------------------------------------------------------------
(* Claims about a failing rollover *)

\* The request asks for a semester whose derived id is already in the table.
TargetExists(form) ==
    \E i \in Indices(semesters) :
        semesters[i].id = SemesterId(form.season, int(form.year))

\* C23: rollover is all-or-nothing: if the insert of the new semester fails
\* because a Semester with the derived id season_year already exists (the
\* current one included), the old semester remains current, none of its
\* events becomes archived and no SEMESTER_ROLLOVER entry is recorded.
C23_RolloverAllOrNothing ==
    [][\/ /\ response'.outcome # "success"
          /\ UNCHANGED <<semesters, events, audit_log>>
       \/ \A u \in DOMAIN users :
             \A f \in {g \in RolloverForms : g.confirm = "ROLL_OVER" /\ TargetExists(g)} :
                 ~semester_rollover(u, f)]_vars

\* A confirmed rollover onto an existing id failed: the current semester is
\* still current, its live event is not archived and the log has no
\* rollover entry.
C23_Witness ==
    /\ response.endpoint = "semester_rollover"
    /\ response.outcome = "500"
    /\ \E i \in CurrentSemesters(semesters) :
          \E e \in Indices(events) : /\ events[e].semester_id = semesters[i].id
                                     /\ ~events[e].is_archived
    /\ \A i \in Indices(audit_log) : audit_log[i].action # "SEMESTER_ROLLOVER"

----------------------------------------------------------------------------
(* The dues handlers over a store that holds payment allocations.  No route *)
(* of the application writes dues_payment_allocations; the rows here are    *)
(* the kind the schema is made for: part of a user's payment set against    *)
(* one of the same user's charges.                                          *)

\* User 2 owes a Spring and a Fall charge (a second Fall charge is
\* soft-deleted) and paid 30000, split over both, and 500 in a payment
\* that was soft-deleted afterwards; user 3 owes a Fall charge and paid
\* 10000 towards it.  The Fall semester is current, or none is.
InitAllocated ==
    /\ InitPortal
    /\ users = PortalUsers
    /\ semesters \in {PastAndCurrent,
                      [PastAndCurrent EXCEPT ![2].is_current = FALSE]}
    /\ events = << >>
    /\ committee_budget_allocations = << >>
    /\ committee_transactions = << >>
    /\ dues_charges =
          <<DuesChargeRow(SemesterId("Spring", 2024), 2, 50000, "Semester dues", 1, 2, FALSE),
            DuesChargeRow(SemesterId("Fall", 2024), 2, 50000, "Semester dues", 1, 2, FALSE),
            DuesChargeRow(SemesterId("Fall", 2024), 2, 2500, "Late fee", 1, 2, TRUE),
            DuesChargeRow(SemesterId("Fall", 2024), 3, 50000, "Semester dues", 1, 2, FALSE)>>
    /\ dues_payments =
          <<DuesPaymentRow(2, 30000, 1, "cash", 2, FALSE),
            DuesPaymentRow(2, 500, 1, "cash", 2, TRUE),
            DuesPaymentRow(3, 10000, 1, "cash", 2, FALSE)>>
    /\ dues_payment_allocations =
          <<[payment_id |-> 1, charge_id |-> 1, allocated_cents |-> 20000],
            [payment_id |-> 1, charge_id |-> 2, allocated_cents |-> 10000],
            [payment_id |-> 2, charge_id |-> 2, allocated_cents |-> 500],
            [payment_id |-> 3, charge_id |-> 4, allocated_cents |-> 10000]>>

SpecAllocated == InitAllocated /\ [][NextDues]_vars

----------------------------------------------------------------------------
(* Claims about the current/prior split of dues *)

\* The cents allocated against a charge, over all allocation rows.
RECURSIVE SumAllocatedCents(_)
SumAllocatedCents(ids) ==
    IF ids = {} THEN 0
    ELSE LET i == CHOOSE x \in ids : TRUE
         IN  dues_payment_allocations[i].allocated_cents + SumAllocatedCents(ids \ {i})

\* charge_cents minus the allocations against the charge.
Remainder(charge_id) ==
    dues_charges[charge_id].charge_cents
    - SumAllocatedCents({i \in Indices(dues_payment_allocations) :
                            dues_payment_allocations[i].charge_id = charge_id})

RECURSIVE SumRemainders(_)
SumRemainders(ids) ==
    IF ids = {} THEN 0
    ELSE LET i == CHOOSE x \in ids : TRUE
         IN  Remainder(i) + SumRemainders(ids \ {i})

\* The user's non-deleted charges of the semester with this key.
LiveChargesOf(user_id, semester) ==
    {c \in LiveCharges(user_id) :
        semester # NULL /\ dues_charges[c].semester_id = semesters[semester].id}

----------------------------------------------------------------------------
(* models.py: User.get_primary_role *)

\* role_hierarchy.get(name, 0)
role_hierarchy(name) ==
    CASE name = "president" -> 7
      [] name = "vice_president" -> 6
      [] name = "treasurer" -> 5
      [] name \in {"chair_brotherhood", "chair_social", "chair_recruitment"} -> 4
      [] name = "brother" -> 1
      [] OTHER -> 0

\* A primary role picked as the lowest-ranked active role.
get_primary_role_Lowest(user_id) ==
    IF get_active_roles(user_id) = {} THEN {None}
    ELSE {r \in get_active_roles(user_id) :
             \A o \in get_active_roles(user_id) : role_hierarchy(r) <= role_hierarchy(o)}

\* User.get_primary_role: the values the call may return, None for Python's
\* None.  max() keeps the first role of the highest rank, and the query
\* behind active_roles has no ORDER BY, so among roles of equal rank the
\* store's row order decides.
get_primary_role(user_id) ==
    IF get_active_roles(user_id) = {} THEN {None}
    ELSE {r \in get_active_roles(user_id) :
             \A o \in get_active_roles(user_id) : role_hierarchy(o) <= role_hierarchy(r)}

\* A caller asks for the user's primary role (app.py get_current_user_role).
primary_role(user_id) ==
    /\ user_id \in DOMAIN users
    /\ \E r \in get_primary_role(user_id) :
          response' = Response("get_primary_role", "200", [user |-> user_id, role |-> r])
    /\ UNCHANGED <<users, roles, user_roles, audit_log, now, reqs, legacy_tables>>
    /\ UNCHANGED <<semester_tables, committee_tables, dues_tables>>

\* The roles of one account granted and revoked by the admin, and the
\* primary role asked for the admin, an account without roles and that
\* account.
NextPrimary ==
    \/ \E r \in DEFAULT_ROLES : grant_role(PermissionSubject, r, 1)
    \/ \E r \in DEFAULT_ROLES : revoke_role(PermissionSubject, r, 1)
    \/ \E u \in DOMAIN users : primary_role(u)

SpecPrimary == Init /\ [][NextPrimary]_vars

----------------------------------------------------------------------------
(* Claims about the primary role *)

\* The roles the user holds in a non-revoked row.
ActiveRoleNames(user_id) == {r \in roles : HoldsActive(user_id, {r})}

\* The hierarchy president > vice_president > treasurer > chair roles >
\* brother, as levels.
HierarchyLevel ==
    (ROLE_PRESIDENT :> 5) @@ (ROLE_VICE_PRESIDENT :> 4) @@ (ROLE_TREASURER :> 3) @@
    (ROLE_CHAIR_BROTHERHOOD :> 2) @@ (ROLE_CHAIR_SOCIAL :> 2) @@
    (ROLE_CHAIR_RECRUITMENT :> 2) @@ (ROLE_BROTHER :> 1)

\* Role a ranks strictly higher than role b in the hierarchy.
RanksAbove(a, b) ==
    /\ a \in DOMAIN HierarchyLevel
    /\ b \in DOMAIN HierarchyLevel
    /\ HierarchyLevel[a] > HierarchyLevel[b]

\* The value is one get_primary_role may return for a user with these
\* active roles.
IsPrimaryOf(value, active) ==
    IF active = {} THEN value = None
    ELSE /\ value \in active
         /\ \A o \in active : ~RanksAbove(o, value)

\* C25: get_primary_role returns None exactly when the user has no active
\* role; otherwise it returns one of the user's active roles such that no
\* other active role of the user ranks strictly higher in the hierarchy
\* president > vice_president > treasurer > chair roles > brother; a
\* revoked role is never returned.
C25_PrimaryRole ==
    /\ [](\A u \in DOMAIN users :
             /\ get_primary_role(u) # {}
             /\ \A value \in get_primary_role(u) : IsPrimaryOf(value, ActiveRoleNames(u)))
    /\ [][(response' # response /\ response'.endpoint = "get_primary_role")
          => IsPrimaryOf(response'.value.role,
                         ActiveRoleNames(response'.value.user))]_vars

\* The account holds brother and treasurer and lost a third role; the call
\* returned treasurer.
C25_Witness ==
    /\ response.endpoint = "get_primary_role"
    /\ response.value.user = PermissionSubject
    /\ response.value.role = ROLE_TREASURER
    /\ ActiveRoleNames(PermissionSubject) = {ROLE_BROTHER, ROLE_TREASURER}

----------------------------------------------------------------------------
(* Claims about revocation *)

\* The user holds no chair and no executive-tier role in a non-revoked row.
PlainMember(user_id) == ~HoldsActive(user_id, CHAIR_ROLES \cup EXECUTIVE_ROLES)

\* After the step the user passes none of the role checks.
ChecksFailAfter(user_id) ==
    /\ \A c \in DOMAIN COMMITTEE_ROLE_MAP : ~can_manage_committee(user_id, c)'
    /\ \A p \in PermissionInputs : ~has_permission(user_id, p)'

\* A user without chair or executive role is refused on committee
\* transactions.
PlainMemberRefused ==
    \A u \in {x \in DOMAIN users : PlainMember(x)} :
        /\ \A c \in {"Social", "Brotherhood"} :
              create_committee_transaction(u, c, PortalTransactionForm) => Forbidden
        /\ \A t \in Indices(committee_transactions) :
              delete_committee_transaction(u, t) => Forbidden

\* C26: revocation takes effect at the next check: after revoke_role(U, R)
\* succeeds has_role(U, R) is false, and if R was U's only chair or
\* executive role then can_manage_committee(U, c) is false for every
\* committee and has_permission(U, p) for every capability, so U can no
\* longer create or delete committee transactions.
C26_RevocationTakesEffect ==
    [][/\ \A i \in Indices(user_roles) :
             (user_roles[i].revoked_at = NULL /\ user_roles'[i].revoked_at # NULL)
             => /\ ~has_role(user_roles[i].user_id, user_roles[i].role_id)'
                /\ PlainMember(user_roles[i].user_id)'
                   => ChecksFailAfter(user_roles[i].user_id)
       /\ Forbidden \/ PlainMemberRefused]_vars

\* The president revoked user 3's Social chair, the only chair or
\* executive role of user 3, who was then refused when entering a
\* committee transaction.
C26_Witness ==
    /\ response.endpoint = "create_committee_transaction"
    /\ response.outcome = "403"
    /\ Logged("ROLE_REVOKED", 3, ROLE_CHAIR_SOCIAL)
    /\ PlainMember(3)
    /\ HoldsActive(1, {ROLE_ADMIN})
    /\ HoldsActive(2, {ROLE_PRESIDENT})

----------------------------------------------------------------------------
(* Claims about recording a dues payment *)

\* The balances of every user after the step: the total of user_id is
\* lower by amount, every other balance is as before.
BalancesAfterPayment(user_id, amount) ==
    \A u \in DOMAIN users, semester \in get_current_semester(semesters) :
        LET before == DuesView(u, semester)
            after == DuesView(u, semester)'
        IN  /\ after.balance_cents =
                  IF u = user_id THEN before.balance_cents - amount
                  ELSE before.balance_cents
            /\ after.current_semester_balance = before.current_semester_balance
            /\ after.prior_balance = before.prior_balance

\* C27: recording a dues payment of a cents for user U by an authorized
\* actor inserts exactly one DuesPayment row, no allocation row and one
\* DUES_PAYMENT_RECORDED audit entry; afterwards U's total balance is lower
\* by exactly a, while U's current-semester and prior balances and every
\* other user's balances are unchanged.
C27_PaymentEffects ==
    [][\A actor \in {x \in DOMAIN users : HoldsActive(x, TreasuryRoles)} :
          \A f \in PaymentForms :
              record_dues_payment(actor, f)
              => /\ Len(dues_payments') = Len(dues_payments) + 1
                 /\ SubSeq(dues_payments', 1, Len(dues_payments)) = dues_payments
                 /\ dues_payments'[Len(dues_payments')].user_id = int(f.user_id)
                 /\ dues_payments'[Len(dues_payments')].amount_cents = int(f.amount_cents)
                 /\ ~dues_payments'[Len(dues_payments')].is_deleted
                 /\ UNCHANGED <<dues_payment_allocations, dues_charges>>
                 /\ Len(audit_log') = Len(audit_log) + 1
                 /\ SubSeq(audit_log', 1, Len(audit_log)) = audit_log
                 /\ audit_log'[Len(audit_log')].action = "DUES_PAYMENT_RECORDED"
                 /\ audit_log'[Len(audit_log')].actor_user_id = actor
                 /\ BalancesAfterPayment(int(f.user_id), int(f.amount_cents))]_vars

\* The president recorded 50000 for user 3, who had paid 10000 before with
\* all of it allocated: the allocations are the seeded four.
C27_Witness ==
    /\ response.endpoint = "record_dues_payment"
    /\ response.outcome = "success"
    /\ Len(dues_payments) = 4
    /\ dues_payments[4].user_id = 3
    /\ dues_payments[4].amount_cents = 50000
    /\ Len(dues_payment_allocations) = 4
    /\ audit_log[Len(audit_log)].action = "DUES_PAYMENT_RECORDED"

----------------------------------------------------------------------------
(* The dues handlers while an account awaits approval.  A User row starts   *)
(* with the column defaults status 'pending' and is_active true;            *)
(* /verify_brothers sets status to 'active'.                                *)

InitPending ==
    /\ InitPortal
    /\ users = [PortalUsers EXCEPT ![3].status = "pending"]
    /\ semesters = PastAndCurrent
    /\ events = << >>
    /\ committee_budget_allocations = << >>
    /\ committee_transactions = << >>
    /\ dues_charges = << >>
    /\ dues_payments = << >>
    /\ dues_payment_allocations = << >>

NextPending ==
    \/ NextDues
    \/ \E p \in BOOLEAN : verify_brothers(p, 3, "approve")

SpecPending == InitPending /\ [][NextPending]_vars

----------------------------------------------------------------------------
(* Claims about who is charged *)

\* The accounts whose status is active.
StatusActive == {u \in DOMAIN users : users[u].status = "active"}

\* C28: a batch dues charge never creates a DuesCharge row for a user whose
\* account status is pending or suspended: only users with status active
\* are charged, and the audit entry's count equals the number of such
\* users.
C28_OnlyActiveStatusCharged ==
    [][/\ \A c \in Indices(dues_charges') \ Indices(dues_charges) :
             dues_charges'[c].user_id \in StatusActive
       /\ \A i \in Indices(audit_log') \ Indices(audit_log) :
             audit_log'[i].action = "DUES_CHARGE_BATCH_CREATED"
             => audit_log'[i].details.count = Cardinality(StatusActive)]_vars

----------------------------------------------------------------------------
(* Committee transactions entered with either sign and any direction *)

\* amount_cents and direction fields of the transaction requests.
SignForms ==
    {[amount_cents |-> a, direction |-> d] :
        a \in {"500", "-500"}, d \in {"spend", "credit", "refund", None}}

NextSign ==
    \/ \E u \in {2, 3}, f \in SignForms : create_committee_transaction(u, "Social", f)
    \/ \E u \in {2, 3}, t \in Indices(committee_transactions) :
          delete_committee_transaction(u, t)
    \/ \E u \in {2, 3} : committee(u, "Social")

SpecSign == InitCommittee /\ [][NextSign]_vars

----------------------------------------------------------------------------
(* Claims about the sign of a committee transaction *)

Magnitude(n) == IF n >= 0 THEN n ELSE 0 - n

\* The key of the Social committee.
Social == CHOOSE c \in Indices(committees) : committees[c].name = "Social"

\* C29: the sign of a stored committee transaction is determined only by the
\* requested direction: for direction spend the stored amount_cents is
\* -|amount| (never positive), for any other direction +|amount| (never
\* negative), whatever the sign of the submitted amount; hence creating a
\* spend of |a| lowers the committee's remaining balance by exactly |a|.
C29_SignFollowsDirection ==
    [][\A u \in {2, 3}, f \in {g \in SignForms : g.direction # None} :
          (create_committee_transaction(u, "Social", f) /\ response'.outcome = "success")
          => LET stored == committee_transactions'[Len(committee_transactions')].amount_cents
                 a == Magnitude(IntValues[f.amount_cents])
             IN  /\ Len(committee_transactions') = Len(committee_transactions) + 1
                 /\ f.direction = "spend" => stored = 0 - a /\ stored <= 0
                 /\ f.direction # "spend" => stored = a /\ stored >= 0
                 /\ \A semester \in CurrentSemesters(semesters) :
                       /\ RemainingBalance(semesters[semester].id, Social)'
                             = RemainingBalance(semesters[semester].id, Social) + stored
                       /\ CommitteeView("Social", semester).remaining_cents'
                             = CommitteeView("Social", semester).remaining_cents + stored
                       /\ f.direction = "spend"
                          => CommitteeView("Social", semester).remaining_cents'
                                = CommitteeView("Social", semester).remaining_cents - a]_vars

\* The Social committee's rows of the current semester hold an expense and a
\* credit entered by request, and the page shows their sum.
C29_Witness ==
    /\ response.endpoint = "committee"
    /\ response.outcome = "200"
    /\ response.value.remaining_cents = 0
    /\ \E s \in CurrentSemesters(semesters) :
          /\ \E t \in LiveTransactionsOf(semesters[s].id, Social) :
                committee_transactions[t].amount_cents = -500
          /\ \E t \in LiveTransactionsOf(semesters[s].id, Social) :
                committee_transactions[t].amount_cents = 500

----------------------------------------------------------------------------
(* Claims about granting a role again *)

\* The rows of a (user, role) pair.
PairRows(user_id, role_name) ==
    {i \in Indices(user_roles) : /\ user_roles[i].user_id = user_id
                                 /\ user_roles[i].role_id = role_name}

PairActive(user_id, role_name) ==
    {i \in PairRows(user_id, role_name) : user_roles[i].revoked_at = NULL}

\* C30: a role can be re-granted after revocation: for any (U, R) the
\* sequence grant_role, revoke_role, grant_role returns True three times,
\* leaving exactly two assignment rows for (U, R), one revoked and one
\* active; this repeats for any number of grant/revoke cycles.
C30_RegrantAfterRevoke ==
    /\ [](\A u \in DOMAIN users, r \in roles, a \in ActorInputs :
             IF PairActive(u, r) = {}
             THEN GrantResult(user_roles, audit_log, u, r, a).outcome = "True"
             ELSE RevokeResult(user_roles, audit_log, u, r, a).outcome = "True")
    /\ [][\A u \in DOMAIN users, r \in RoleNameInputs \cap roles, a \in ActorInputs :
             /\ (grant_role(u, r, a) /\ PairActive(u, r) = {})
                => /\ Cardinality(PairRows(u, r))' = Cardinality(PairRows(u, r)) + 1
                   /\ Cardinality(PairActive(u, r))' = 1
                   /\ \A i \in PairRows(u, r) : user_roles'[i] = user_roles[i]
             /\ (revoke_role(u, r, a) /\ PairActive(u, r) # {})
                => /\ PairRows(u, r)' = PairRows(u, r)
                   /\ PairActive(u, r)' = {}]_vars

\* After grant, revoke and grant the pair (3, brother) has two rows, the
\* first revoked and the second active.
C30_Witness ==
    /\ Cardinality(PairRows(3, ROLE_BROTHER)) = 2
    /\ Cardinality(PairActive(3, ROLE_BROTHER)) = 1
    /\ \E i \in PairRows(3, ROLE_BROTHER), j \in PairActive(3, ROLE_BROTHER) :
          /\ user_roles[i].revoked_at # NULL
          /\ user_roles[i].granted_at < user_roles[i].revoked_at
          /\ user_roles[i].revoked_at <= user_roles[j].granted_at

====
